---------------------------- MODULE Spec2Model ----------------------------
(***************************************************************************)
(* chat-tui: the streaming protocol client (OpenAIClient.ChatStream and    *)
(* its reader goroutine) and the interaction controller (ChatModel.Update, *)
(* its tea.Cmd closures and handleCommand).                                *)
(*                                                                         *)
(* Text is a sequence of tokens: "" is << >>, s + t is s \o t.  A token is *)
(* a word, a run of white space (" "), the slash ("/"), the SSE field name *)
(* ("data:") or a JSON payload.                                            *)
(***************************************************************************)
EXTENDS Integers, Sequences, FiniteSets, Bags

VARIABLES
    messages,       \* ChatModel.messages: sequence of [Role, Content]
    streaming,      \* ChatModel.streaming
    streamContent,  \* ChatModel.streamContent
    streamChan,     \* ChatModel.streamChan: 0 is nil, s > 0 the channel of stream s
    streamStats,    \* ChatModel.streamStats: 0 is nil, s > 0 the record of stream s
    err,            \* ChatModel.err: "" is nil
    systemPrompt,   \* ChatModel.systemPrompt
    statsComp,      \* ChatModel.stats: [visible, stats]
    temperature,    \* OpenAIClient.temperature of ChatModel.client, in tenths
    model,          \* OpenAIClient.model of ChatModel.client
    config,         \* ChatModel.config: [SystemPrompt, ShowStats, Temperature, Model]
    inputComponent, \* ChatModel.input, the InputComponent: [value]; with its
                    \* history in SpecInput and SpecSugg
    suggestions,    \* ChatModel.suggestions: the names of the commands suggested
    selectedSuggestion, \* ChatModel.selectedSuggestion, an index from 0
    quit,           \* tea.Quit was returned
    cmds,           \* the tea.Cmd goroutines in flight, a bag of [pc, ch, msg]
    streams,        \* one record per ChatStream call
    now,            \* the clock read by time.Now()
    hist            \* history, read by no action: [turn, cancelled, everCancelled, errored, seen, commits]

vars == <<messages, streaming, streamContent, streamChan, streamStats, err,
          systemPrompt, statsComp, temperature, model, config, inputComponent,
          suggestions, selectedSuggestion, quit, cmds, streams, now, hist>>

ctlVars == <<messages, streaming, streamContent, streamChan, streamStats, err,
             systemPrompt, statsComp, temperature, model, config, inputComponent,
             suggestions, selectedSuggestion, quit, hist>>

-----------------------------------------------------------------------------
(* Bounds of the model *)

\* lines of a response body, SpecStream
MaxBody == 3
\* lines of a response body, SpecTime
MaxTimedBody == 3
\* ticks of the clock, SpecTime
MaxClock == 3
\* ChatStream requests of one run, controller specification
MaxStreams == 2
\* length of the history, controller specification
MaxMsgs == 4
MaxCmdStreams == 1
MaxCmdMsgs == 3
MaxLongStreams == 2

(* Program constants *)

\* make(chan StreamChunk, 10)
ChanCap == 10
\* http.StatusOK
StatusOK == 200
\* a status other than http.StatusOK
StatusError == 500

-----------------------------------------------------------------------------
(* Text helpers: strings.TrimSpace / bytes.TrimSpace on token sequences *)

IsSpace(t) == t = " "

RECURSIVE TrimLeft(_)
TrimLeft(s) ==
    IF s # << >> /\ IsSpace(Head(s)) THEN TrimLeft(Tail(s)) ELSE s

RECURSIVE TrimRight(_)
TrimRight(s) ==
    IF s # << >> /\ IsSpace(s[Len(s)]) THEN TrimRight(SubSeq(s, 1, Len(s) - 1)) ELSE s

TrimSpace(s) == TrimRight(TrimLeft(s))

-----------------------------------------------------------------------------
(* The SSE body and its decoding *)

\* JSON payloads of the model and what json.Unmarshal makes of them:
\* ok is FALSE on a decoding error; choices is the Delta.Content of each choice.
PayA       == "{choices:[{delta:{content:a}}]}"
PayB       == "{choices:[{delta:{content:b}}]}"
PayEmpty   == "{choices:[{delta:{content:}}]}"
PayRole    == "{choices:[{delta:{role:assistant}}]}"
PayNoChoice == "{choices:[]}"
PayBad     == "{choices:"
Sentinel   == "[DONE]"

JsonUnmarshal(data) ==
    LET d == TrimSpace(data) IN
    IF Len(d) # 1 THEN [ok |-> FALSE, choices |-> << >>]
    ELSE CASE d[1] = PayA        -> [ok |-> TRUE, choices |-> << <<"a">> >>]
           [] d[1] = PayB        -> [ok |-> TRUE, choices |-> << <<"b">> >>]
           [] d[1] = PayEmpty    -> [ok |-> TRUE, choices |-> << << >> >>]
           [] d[1] = PayRole     -> [ok |-> TRUE, choices |-> << << >> >>]
           [] d[1] = PayNoChoice -> [ok |-> TRUE, choices |-> << >>]
           [] OTHER              -> [ok |-> FALSE, choices |-> << >>]

\* bytes.HasPrefix(line, "data: ") and bytes.TrimPrefix(line, "data: ")
HasDataPrefix(line) == Len(line) >= 2 /\ line[1] = "data:" /\ line[2] = " "
TrimDataPrefix(line) == IF HasDataPrefix(line) THEN SubSeq(line, 3, Len(line)) ELSE line

\* A body: its lines, whether the last line ends with '\n', and how the
\* transport ends after them: "EOF" or "read error".
\* reader.ReadBytes('\n') at position pos (lines already returned): a line and
\* no error, or the rest (a partial line or nothing) with the error.
ReadBytes(body, pos) ==
    IF pos < Len(body.lines) /\ (pos + 1 < Len(body.lines) \/ body.nl)
    THEN [line |-> body.lines[pos + 1], err |-> ""]
    ELSE [line |-> IF pos < Len(body.lines) THEN body.lines[pos + 1] ELSE << >>,
          err |-> body.end]

\* ClassifyLine, but a decoded payload with an empty delta counts as content
ClassifyLineEmptyDelta(raw) ==
    LET line == TrimSpace(raw) IN
    IF Len(line) = 0 THEN [kind |-> "skip", content |-> << >>]
    ELSE IF ~HasDataPrefix(line) THEN [kind |-> "skip", content |-> << >>]
    ELSE LET data == TrimDataPrefix(line) IN
         IF data = <<Sentinel>> THEN [kind |-> "done", content |-> << >>]
         ELSE LET r == JsonUnmarshal(data) IN
              IF ~r.ok THEN [kind |-> "skip", content |-> << >>]
              ELSE IF Len(r.choices) > 0
                   THEN [kind |-> "content", content |-> r.choices[1]]
                   ELSE [kind |-> "skip", content |-> << >>]

\* What one iteration of the read loop does with a line read without error
\* (lines 494-552): "skip" (continue), "done" (the sentinel) or "content".
ClassifyLine(raw) ==
    LET line == TrimSpace(raw) IN
    IF Len(line) = 0 THEN [kind |-> "skip", content |-> << >>]
    ELSE IF ~HasDataPrefix(line) THEN [kind |-> "skip", content |-> << >>]
    ELSE LET data == TrimDataPrefix(line) IN
         IF data = <<Sentinel>> THEN [kind |-> "done", content |-> << >>]
         ELSE LET r == JsonUnmarshal(data) IN
              IF ~r.ok THEN [kind |-> "skip", content |-> << >>]
              ELSE IF Len(r.choices) > 0 /\ r.choices[1] # << >>
                   THEN [kind |-> "content", content |-> r.choices[1]]
                   ELSE [kind |-> "skip", content |-> << >>]

-----------------------------------------------------------------------------
(* StreamChunk and RequestStats *)

\* StreamChunk{Content, Done, Error}; Error "" is nil
ContentChunk(c) == [Content |-> c, Done |-> FALSE, Error |-> ""]
DoneChunk == [Content |-> << >>, Done |-> TRUE, Error |-> ""]
ErrorChunk(e) == [Content |-> << >>, Done |-> FALSE, Error |-> e]

\* A float64 is a ratio <<n, d>>; the zero value is <<0, 1>>.
ZeroFloat == <<0, 1>>

\* &RequestStats{StartTime: time.Now(), Model: c.model}, then HTTPStatus;
\* a time.Time or Duration of 0 is the zero value.
NewRequestStats(t, status) ==
    [StartTime |-> t, EndTime |-> 0, FirstTokenTime |-> 0, OutputTokens |-> 0,
     TokensPerSec |-> ZeroFloat, TimeToFirstToken |-> 0, GenerationTime |-> 0,
     PostFirstTokenSpeed |-> ZeroFloat, Latency |-> 0, HTTPStatus |-> status]

\* The state of one ChatStream call after the 200 response: the body, the
\* goroutine's locals (pos is the reader's position, tokenCount,
\* firstTokenReceived, content the delta about to be sent), the shared stats
\* record, the channel (its buffer, closed), resp.Body closed, and the chunks
\* sent so far.
NewStream(body, t, msgs) ==
    [request |-> msgs, body |-> body, pos |-> 0, pc |-> "read", tokenCount |-> 0,
     firstTokenReceived |-> FALSE, content |-> << >>,
     stats |-> NewRequestStats(t, StatusOK),
     chan |-> << >>, closed |-> FALSE, bodyClosed |-> FALSE, sent |-> << >>]

\* A ChatStream call that returned an error: no channel, no goroutine; the
\* response body, if there was one, is closed (line 454).
FailedStream(e, t, msgs) ==
    [NewStream([lines |-> << >>, nl |-> TRUE, end |-> "EOF"], t, msgs) EXCEPT
        !.pc = "failed",
        !.stats.HTTPStatus = IF e = "API error" THEN StatusError ELSE 0,
        !.bodyClosed = (e = "API error")]

\* Finalize, but the speed after the first token counts the first token too
FinalizePostSpeedFromOne(st, t) ==
    LET s1 == [st.stats EXCEPT !.EndTime = t,
                               !.Latency = t - st.stats.StartTime,
                               !.OutputTokens = st.tokenCount]
        gen == s1.EndTime - s1.FirstTokenTime
        s2 == IF st.firstTokenReceived
              THEN [s1 EXCEPT !.GenerationTime = gen,
                              !.PostFirstTokenSpeed =
                                  IF st.tokenCount > 0 /\ gen > 0
                                  THEN <<st.tokenCount, gen>>
                                  ELSE @]
              ELSE s1
    IN  IF st.tokenCount > 0 /\ s2.Latency > 0
        THEN [s2 EXCEPT !.TokensPerSec = <<st.tokenCount, s2.Latency>>]
        ELSE s2

\* Finalize, but the latency is taken from the first token
FinalizeLatencyFromFirstToken(st, t) ==
    [st.stats EXCEPT !.EndTime = t,
                     !.Latency = t - (IF st.firstTokenReceived
                                      THEN st.stats.FirstTokenTime + 1
                                      ELSE st.stats.StartTime),
                     !.OutputTokens = st.tokenCount]

\* The finalization block (lines 474-489 and 508-523), run at time t.
Finalize(st, t) ==
    LET s1 == [st.stats EXCEPT !.EndTime = t,
                               !.Latency = t - st.stats.StartTime,
                               !.OutputTokens = st.tokenCount]
        gen == s1.EndTime - s1.FirstTokenTime
        s2 == IF st.firstTokenReceived
              THEN [s1 EXCEPT !.GenerationTime = gen,
                              !.PostFirstTokenSpeed =
                                  IF st.tokenCount > 1 /\ gen > 0
                                  THEN <<st.tokenCount - 1, gen>>
                                  ELSE @]
              ELSE s1
    IN  IF st.tokenCount > 0 /\ s2.Latency > 0
        THEN [s2 EXCEPT !.TokensPerSec = <<st.tokenCount, s2.Latency>>]
        ELSE s2

\* chunks <- c on the buffered channel: blocks while the buffer is full
CanSend(st) == Len(st.chan) < ChanCap
Send(st, c) == [st EXCEPT !.chan = Append(@, c), !.sent = Append(@, c)]

-----------------------------------------------------------------------------
(* The reader goroutine of ChatStream, stream s *)

\* ReadStep, but every payload with text takes the first-token time again
ReadStepTimeEveryToken(st, t) ==
    LET r == ReadBytes(st.body, st.pos) IN
    IF r.err # ""
    THEN [st EXCEPT !.pos = Len(st.body.lines),
                    !.pc = IF r.err # "EOF" THEN "sendError" ELSE "finalize"]
    ELSE LET c == ClassifyLine(r.line)
             st1 == [st EXCEPT !.pos = @ + 1] IN
         CASE c.kind = "skip" -> st1
           [] c.kind = "done" -> [st1 EXCEPT !.pc = "finalize"]
           [] OTHER ->
                [st1 EXCEPT !.tokenCount = @ + 1,
                            !.content = c.content,
                            !.pc = "sendContent",
                            !.stats.FirstTokenTime = t,
                            !.stats.TimeToFirstToken = t - st.stats.StartTime,
                            !.firstTokenReceived = TRUE]

\* ReadStep, but the sentinel is skipped like a payload without text
ReadStepSentinelSkipped(st, t) ==
    LET r == ReadBytes(st.body, st.pos) IN
    IF r.err # ""
    THEN [st EXCEPT !.pos = Len(st.body.lines),
                    !.pc = IF r.err # "EOF" THEN "sendError" ELSE "finalize"]
    ELSE LET c == ClassifyLine(r.line)
             st1 == [st EXCEPT !.pos = @ + 1] IN
         IF c.kind \in {"skip", "done"} THEN st1
         ELSE LET st2 == [st1 EXCEPT !.tokenCount = @ + 1,
                                     !.content = c.content,
                                     !.pc = "sendContent"] IN
              IF ~st.firstTokenReceived
              THEN [st2 EXCEPT !.stats.FirstTokenTime = t,
                               !.stats.TimeToFirstToken = t - st.stats.StartTime,
                               !.firstTokenReceived = TRUE]
              ELSE st2

\* One reader.ReadBytes and what the loop does with it up to the next channel
\* send or the finalization.
ReadStep(st, t) ==
    LET r == ReadBytes(st.body, st.pos) IN
    IF r.err # ""
    THEN [st EXCEPT !.pos = Len(st.body.lines),
                    !.pc = IF r.err # "EOF" THEN "sendError" ELSE "finalize"]
    ELSE LET c == ClassifyLine(r.line)
             st1 == [st EXCEPT !.pos = @ + 1] IN
         CASE c.kind = "skip" -> st1
           [] c.kind = "done" -> [st1 EXCEPT !.pc = "finalize"]
           [] OTHER ->
                LET st2 == [st1 EXCEPT !.tokenCount = @ + 1,
                                       !.content = c.content,
                                       !.pc = "sendContent"] IN
                IF ~st.firstTokenReceived
                THEN [st2 EXCEPT !.stats.FirstTokenTime = t,
                                 !.stats.TimeToFirstToken = t - st.stats.StartTime,
                                 !.firstTokenReceived = TRUE]
                ELSE st2

ProdRead(s) ==
    /\ ~quit
    /\ s \in DOMAIN streams
    /\ streams[s].pc = "read"
    /\ streams' = [streams EXCEPT ![s] = ReadStep(@, now)]
    /\ UNCHANGED <<ctlVars, cmds, now>>

\* chunks <- StreamChunk{Content: content, Done: false}
ProdSendContent(s) ==
    /\ ~quit
    /\ s \in DOMAIN streams
    /\ streams[s].pc = "sendContent"
    /\ CanSend(streams[s])
    /\ streams' = [streams EXCEPT
           ![s] = [Send(@, ContentChunk(@.content)) EXCEPT !.pc = "read"]]
    /\ UNCHANGED <<ctlVars, cmds, now>>

\* ProdSendError, but the goroutine returns right after the Error chunk
ProdSendErrorAndReturn(s) ==
    /\ ~quit
    /\ s \in DOMAIN streams
    /\ streams[s].pc = "sendError"
    /\ CanSend(streams[s])
    /\ streams' = [streams EXCEPT
           ![s] = [Send(@, ErrorChunk("stream read error")) EXCEPT !.pc = "close"]]
    /\ UNCHANGED <<ctlVars, cmds, now>>

\* chunks <- StreamChunk{Error: fmt.Errorf("stream read error: %w", err)}
ProdSendError(s) ==
    /\ ~quit
    /\ s \in DOMAIN streams
    /\ streams[s].pc = "sendError"
    /\ CanSend(streams[s])
    /\ streams' = [streams EXCEPT
           ![s] = [Send(@, ErrorChunk("stream read error")) EXCEPT !.pc = "finalize"]]
    /\ UNCHANGED <<ctlVars, cmds, now>>

ProdFinalize(s) ==
    /\ ~quit
    /\ s \in DOMAIN streams
    /\ streams[s].pc = "finalize"
    /\ streams' = [streams EXCEPT ![s] = [@ EXCEPT !.stats = Finalize(streams[s], now),
                                                   !.pc = "sendDone"]]
    /\ UNCHANGED <<ctlVars, cmds, now>>

\* ProdSendDone, but the end time is taken again at the send
ProdSendDoneStamps(s) ==
    /\ ~quit
    /\ s \in DOMAIN streams
    /\ streams[s].pc = "sendDone"
    /\ CanSend(streams[s])
    /\ streams' = [streams EXCEPT ![s] = [Send(@, DoneChunk) EXCEPT
                                             !.stats.EndTime = now, !.pc = "close"]]
    /\ UNCHANGED <<ctlVars, cmds, now>>

\* chunks <- StreamChunk{Done: true}; return
ProdSendDone(s) ==
    /\ ~quit
    /\ s \in DOMAIN streams
    /\ streams[s].pc = "sendDone"
    /\ CanSend(streams[s])
    /\ streams' = [streams EXCEPT ![s] = [Send(@, DoneChunk) EXCEPT !.pc = "close"]]
    /\ UNCHANGED <<ctlVars, cmds, now>>

\* the deferred close(chunks) and resp.Body.Close()
ProdClose(s) ==
    /\ ~quit
    /\ s \in DOMAIN streams
    /\ streams[s].pc = "close"
    /\ streams' = [streams EXCEPT ![s] = [@ EXCEPT !.closed = TRUE,
                                                   !.bodyClosed = TRUE,
                                                   !.pc = "exit"]]
    /\ UNCHANGED <<ctlVars, cmds, now>>

\* time passes: the next time.Now() is not earlier than the last
Tick ==
    /\ ~quit
    /\ now < MaxClock + 1
    /\ now' = now + 1
    /\ UNCHANGED <<ctlVars, cmds, streams>>

-----------------------------------------------------------------------------
(* Slash commands: internal/commands *)

Message(role, content) == [Role |-> role, Content |-> content]

\* strings.ToLower on a word
ToLower(w) ==
    CASE w = "NEW" -> "new"
      [] w = "Delete" -> "delete"
      [] w = "HELP" -> "help"
      [] w = "SYSTEM" -> "system"
      [] w = "Temp" -> "temp"
      [] OTHER -> w

\* strings.HasPrefix(s, "/") and strings.TrimPrefix(s, "/")
HasSlash(s) == s # << >> /\ Head(s) = "/"

\* strings.Fields: the words between runs of white space
Fields(s) == SelectSeq(s, LAMBDA t : ~IsSpace(t))

IsCommand(input) == HasSlash(TrimSpace(input))

\* ParseCommand, but the line is not trimmed first
ParseCommandUntrimmed(input) ==
    IF ~HasSlash(input) THEN [err |-> "not a command", Name |-> "", Args |-> << >>]
    ELSE LET parts == Fields(Tail(input)) IN
         IF Len(parts) = 0 THEN [err |-> "empty command", Name |-> "", Args |-> << >>]
         ELSE [err |-> "", Name |-> ToLower(parts[1]), Args |-> Tail(parts)]

ParseCommand(input) ==
    LET in == TrimSpace(input) IN
    IF ~HasSlash(in) THEN [err |-> "not a command", Name |-> "", Args |-> << >>]
    ELSE LET parts == Fields(Tail(in)) IN
         IF Len(parts) = 0 THEN [err |-> "empty command", Name |-> "", Args |-> << >>]
         ELSE [err |-> "", Name |-> ToLower(parts[1]), Args |-> Tail(parts)]

\* Command.ValidateArgs(min, max): "" is nil
ValidateArgs(cmd, min, max) ==
    IF Len(cmd.Args) < min THEN "requires at least"
    ELSE IF max > 0 /\ Len(cmd.Args) > max THEN "accepts at most"
    ELSE ""

\* the float64 NaN among the tenths: a code no decimal word parses to; NaN is
\* compared through FloatLess only
NaN == 1000

\* a < b on float64: every comparison with NaN is false
FloatLess(a, b) == a # NaN /\ b # NaN /\ a < b

\* strconv.ParseFloat on the words of the model, in tenths; "NaN" (any case)
\* parses without error
ParseFloat(w) ==
    CASE w = "0"   -> [ok |-> TRUE, val |-> 0]
      [] w = "NaN" -> [ok |-> TRUE, val |-> NaN]
      [] w = "0.5" -> [ok |-> TRUE, val |-> 5]
      [] w = "2"   -> [ok |-> TRUE, val |-> 20]
      [] w = "3"   -> [ok |-> TRUE, val |-> 30]
      [] w = "-1"  -> [ok |-> TRUE, val |-> -10]
      [] OTHER     -> [ok |-> FALSE, val |-> 0]

\* Command.GetFloatArg(index), index from 0
GetFloatArg(cmd, index) ==
    IF index >= Len(cmd.Args) THEN [err |-> "argument not found", val |-> 0]
    ELSE LET r == ParseFloat(cmd.Args[index + 1]) IN
         IF ~r.ok THEN [err |-> "invalid float value", val |-> 0]
         ELSE [err |-> "", val |-> r.val]

\* fmt.Sprintf("%.2f", temp) for temp in tenths within [0, 2]
FormatTemp(t) ==
    CASE t = 0  -> "0.00"
      [] t = 5  -> "0.50"
      [] t = 20 -> "2.00"
      [] t = NaN -> "NaN"
      [] OTHER  -> "%.2f"

RECURSIVE JoinWords(_)
\* strings.Join(words, " ")
JoinWords(ws) ==
    IF Len(ws) = 0 THEN << >>
    ELSE IF Len(ws) = 1 THEN <<ws[1]>>
    ELSE <<ws[1], " ">> \o JoinWords(Tail(ws))

\* Command.GetRestAsString(startIndex), startIndex from 0
GetRestAsString(cmd, startIndex) ==
    IF startIndex >= Len(cmd.Args) THEN << >>
    ELSE JoinWords(SubSeq(cmd.Args, startIndex + 1, Len(cmd.Args)))

\* CommandHelp()
CommandHelp == <<"Available Commands:">>

\* the command names the text of CommandHelp lists
HelpCommands ==
    { "help", "new", "clear", "reload", "temp", "system", "delete", "save", "load",
      "tokens", "cost", "export", "stats", "debug", "retry", "copy", "edit",
      "multiline", "quit" }

\* the names of AvailableCommands, in order
AvailableCommands ==
    <<"help", "new", "clear", "reload", "temp", "system", "delete", "save", "load",
      "tokens", "cost", "export", "stats", "debug", "retry", "copy", "edit",
      "multiline", "exit">>

\* strings.HasPrefix(name, q) for a command name and a word of the model
NameHasPrefix(name, q) ==
    \/ name = q
    \/ q = "s"  /\ name \in {"system", "save", "stats"}
    \/ q = "te" /\ name = "temp"
    \/ q = "e"  /\ name \in {"export", "edit", "exit"}

\* GetSuggestions(input): the names of the commands suggested, in order.  A
\* query of more than one token holds white space and is the prefix of no name.
GetSuggestions(input) ==
    LET in == TrimSpace(input) IN
    IF ~HasSlash(in) THEN << >>
    ELSE LET query == Tail(in) IN
         IF query = << >> THEN AvailableCommands
         ELSE IF Len(query) > 1 THEN << >>
         ELSE SelectSeq(AvailableCommands,
                        LAMBDA name : NameHasPrefix(name, ToLower(query[1])))

-----------------------------------------------------------------------------
(* ChatModel *)

\* The controller's fields as one record
M ==
    [messages |-> messages, streaming |-> streaming, streamContent |-> streamContent,
     streamChan |-> streamChan, streamStats |-> streamStats, err |-> err,
     systemPrompt |-> systemPrompt, statsComp |-> statsComp,
     temperature |-> temperature, model |-> model, config |-> config,
     input |-> inputComponent, suggestions |-> suggestions,
     selectedSuggestion |-> selectedSuggestion, quit |-> quit]

SetM(m) ==
    /\ messages' = m.messages
    /\ streaming' = m.streaming
    /\ streamContent' = m.streamContent
    /\ streamChan' = m.streamChan
    /\ streamStats' = m.streamStats
    /\ err' = m.err
    /\ systemPrompt' = m.systemPrompt
    /\ statsComp' = m.statsComp
    /\ temperature' = m.temperature
    /\ model' = m.model
    /\ config' = m.config
    /\ inputComponent' = m.input
    /\ suggestions' = m.suggestions
    /\ selectedSuggestion' = m.selectedSuggestion
    /\ quit' = m.quit

SetInit(m) ==
    /\ messages = m.messages
    /\ streaming = m.streaming
    /\ streamContent = m.streamContent
    /\ streamChan = m.streamChan
    /\ streamStats = m.streamStats
    /\ err = m.err
    /\ systemPrompt = m.systemPrompt
    /\ statsComp = m.statsComp
    /\ temperature = m.temperature
    /\ model = m.model
    /\ config = m.config
    /\ inputComponent = m.input
    /\ suggestions = m.suggestions
    /\ selectedSuggestion = m.selectedSuggestion
    /\ quit = m.quit

\* NewChatModel(cfg)
NewChatModel(cfg) ==
    [messages |-> IF cfg.SystemPrompt # << >>
                  THEN <<Message("system", cfg.SystemPrompt)>> ELSE << >>,
     streaming |-> FALSE, streamContent |-> << >>, streamChan |-> 0,
     streamStats |-> 0, err |-> "", systemPrompt |-> cfg.SystemPrompt,
     statsComp |-> [visible |-> cfg.ShowStats, stats |-> 0],
     temperature |-> cfg.Temperature, model |-> cfg.Model, config |-> cfg,
     input |-> [value |-> << >>], suggestions |-> << >>, selectedSuggestion |-> 0,
     quit |-> FALSE]

\* The tea.Cmd closures and the tea.Msg they return
Cmd(pc, ch, msg) == [pc |-> pc, ch |-> ch, msg |-> msg]
Msg(type, chunk, s, e) == [type |-> type, chunk |-> chunk, s |-> s, err |-> e]
NoMsg == Msg("", DoneChunk, 0, "")

\* m.streamResponse(): the closure that calls ChatStream
StreamResponseCmd == Cmd("request", 0, NoMsg)
\* m.waitForChunk(): nil when streamChan is nil, else the closure that receives
WaitForChunk(m) == IF m.streamChan = 0 THEN EmptyBag ELSE SetToBag({Cmd("wait", 0, NoMsg)})
\* a closure that has returned msg and is in p.Send(msg)
SendCmd(msg) == Cmd("send", 0, msg)

\* m.input.Reset()
Reset(m) == [m EXCEPT !.input.value = << >>]

\* fmt.Errorf("unknown command: /%s (type /help for available commands)", name)
\* UnknownCommand, but the error does not name the command
UnknownCommandUnnamed(name) == "unknown command"

UnknownCommand(name) ==
    CASE name = "save"   -> "unknown command: /save"
      [] name = "load"   -> "unknown command: /load"
      [] name = "tokens" -> "unknown command: /tokens"
      [] name = "cost"   -> "unknown command: /cost"
      [] name = "export" -> "unknown command: /export"
      [] name = "debug"  -> "unknown command: /debug"
      [] name = "retry"  -> "unknown command: /retry"
      [] name = "edit"   -> "unknown command: /edit"
      [] name = "quit"   -> "unknown command: /quit"
      [] name = "hi"     -> "unknown command: /hi"
      [] OTHER           -> "unknown command: /%s"

\* CommandNew, but the system prompt of the configuration is reinstated
CommandNewFromConfig(m) ==
    Reset([m EXCEPT !.messages = IF m.config.SystemPrompt # << >>
                                 THEN <<Message("system", m.config.SystemPrompt)>>
                                 ELSE << >>,
                    !.err = "",
                    !.streamContent = << >>])

\* case "new", "clear"
CommandNew(m) ==
    Reset([m EXCEPT !.messages = IF m.systemPrompt # << >>
                                 THEN <<Message("system", m.systemPrompt)>>
                                 ELSE << >>,
                    !.err = "",
                    !.streamContent = << >>])

\* CommandDelete, but only the last message is removed
CommandDeleteOne(m) ==
    LET n == Len(m.messages) IN
    IF n >= 2
    THEN Reset([m EXCEPT !.messages = SubSeq(@, 1, n - 1), !.err = ""])
    ELSE Reset([m EXCEPT !.err = "no messages to delete"])

\* case "delete"
CommandDelete(m) ==
    LET n == Len(m.messages) IN
    IF n >= 2
    THEN Reset([m EXCEPT !.messages = IF m.messages[n].Role = "assistant"
                                      THEN SubSeq(@, 1, n - 2)
                                      ELSE SubSeq(@, 1, n - 1),
                         !.err = ""])
    ELSE Reset([m EXCEPT !.err = "no messages to delete"])

\* case "temp"; the early returns leave the input component as it is
CommandTemp(m, cmd) ==
    LET v == ValidateArgs(cmd, 1, 1)
        f == GetFloatArg(cmd, 0) IN
    IF v # "" THEN [m EXCEPT !.err = v]
    ELSE IF f.err # "" THEN [m EXCEPT !.err = f.err]
    ELSE IF FloatLess(f.val, 0) \/ FloatLess(20, f.val)
    THEN [m EXCEPT !.err = "temperature must be between 0 and 2"]
    ELSE Reset([m EXCEPT !.temperature = f.val,
                         !.err = "",
                         !.messages = Append(@, Message("system",
                                         <<"Temperature set to ", FormatTemp(f.val)>>))])

\* CommandSystem, but the system message is always inserted
CommandSystemInsert(m, cmd) ==
    LET v == ValidateArgs(cmd, 1, 0)
        newPrompt == GetRestAsString(cmd, 0) IN
    IF v # "" THEN [m EXCEPT !.err = v]
    ELSE Reset([m EXCEPT !.systemPrompt = newPrompt,
                         !.messages = <<Message("system", newPrompt)>> \o @,
                         !.err = ""])

\* case "system"
CommandSystem(m, cmd) ==
    LET v == ValidateArgs(cmd, 1, 0)
        newPrompt == GetRestAsString(cmd, 0) IN
    IF v # "" THEN [m EXCEPT !.err = v]
    ELSE Reset([m EXCEPT !.systemPrompt = newPrompt,
                         !.messages =
                             IF Len(m.messages) > 0 /\ m.messages[1].Role = "system"
                             THEN [@ EXCEPT ![1].Content = newPrompt]
                             ELSE <<Message("system", newPrompt)>> \o @,
                         !.err = ""])

\* case "copy"
CommandCopy(m, clipOk) ==
    IF \A i \in DOMAIN m.messages : m.messages[i].Role # "assistant" THEN Reset(m)
    ELSE IF ~clipOk THEN Reset([m EXCEPT !.err = "failed to copy"])
    ELSE Reset([m EXCEPT !.err = "",
                         !.messages = Append(@, Message("system",
                                         <<"Last response copied to clipboard">>))])

\* HandleCommand, but an unknown command is submitted as a text
HandleCommandUnknownIsText(m, input, clipOk) ==
    LET cmd == ParseCommand(input) IN
    IF cmd.err # "" THEN [m |-> [m EXCEPT !.err = cmd.err], cmd |-> ""]
    ELSE CASE cmd.Name = "help" ->
                [m |-> Reset([m EXCEPT !.err = "",
                                       !.messages = Append(@, Message("assistant",
                                                                      CommandHelp))]),
                 cmd |-> ""]
           [] cmd.Name \in {"new", "clear"} -> [m |-> CommandNew(m), cmd |-> ""]
           [] cmd.Name = "reload" -> [m |-> m, cmd |-> "reload"]
           [] cmd.Name = "delete" -> [m |-> CommandDelete(m), cmd |-> ""]
           [] cmd.Name = "stats" ->
                [m |-> Reset([m EXCEPT !.statsComp.visible = ~@]), cmd |-> ""]
           [] cmd.Name = "temp" -> [m |-> CommandTemp(m, cmd), cmd |-> ""]
           [] cmd.Name = "system" -> [m |-> CommandSystem(m, cmd), cmd |-> ""]
           [] cmd.Name = "copy" -> [m |-> CommandCopy(m, clipOk), cmd |-> ""]
           [] cmd.Name = "multiline" -> [m |-> Reset(m), cmd |-> ""]
           [] cmd.Name = "exit" -> [m |-> m, cmd |-> "quit"]
           [] OTHER -> [m |-> Reset([m EXCEPT !.messages = Append(@, Message("user", input)),
                                             !.streaming = TRUE]),
                        cmd |-> ""]

\* handleCommand(input), with m.input holding the input; clipOk:
\* clipboard.WriteAll succeeds.
\* Returns the model and the tea.Cmd: "" (nil), "quit", "reload".
HandleCommand(m, input, clipOk) ==
    LET cmd == ParseCommand(input) IN
    IF cmd.err # "" THEN [m |-> [m EXCEPT !.err = cmd.err], cmd |-> ""]
    ELSE CASE cmd.Name = "help" ->
                [m |-> Reset([m EXCEPT !.err = "",
                                       !.messages = Append(@, Message("assistant",
                                                                      CommandHelp))]),
                 cmd |-> ""]
           [] cmd.Name \in {"new", "clear"} -> [m |-> CommandNew(m), cmd |-> ""]
           [] cmd.Name = "reload" -> [m |-> m, cmd |-> "reload"]
           [] cmd.Name = "delete" -> [m |-> CommandDelete(m), cmd |-> ""]
           [] cmd.Name = "stats" ->
                [m |-> Reset([m EXCEPT !.statsComp.visible = ~@]), cmd |-> ""]
           [] cmd.Name = "temp" -> [m |-> CommandTemp(m, cmd), cmd |-> ""]
           [] cmd.Name = "system" -> [m |-> CommandSystem(m, cmd), cmd |-> ""]
           [] cmd.Name = "copy" -> [m |-> CommandCopy(m, clipOk), cmd |-> ""]
           [] cmd.Name = "multiline" -> [m |-> Reset(m), cmd |-> ""]
           [] cmd.Name = "exit" -> [m |-> m, cmd |-> "quit"]
           [] OTHER -> [m |-> Reset([m EXCEPT !.err = UnknownCommand(cmd.Name)]),
                        cmd |-> ""]

-----------------------------------------------------------------------------
(* ChatModel.Update: each handler returns the model and the tea.Cmds it starts *)

Ret(m, c) == [m |-> m, cmds |-> c]

\* UpdateKey, but Enter is handled while streaming too
UpdateKeyEnterWhileStreaming(m, key, input, sugg, clipOk) ==
    IF m.streaming /\ key # "enter"
    THEN IF key = "ctrl+c"
         THEN Ret([m EXCEPT !.streaming = FALSE, !.err = "streaming cancelled"], EmptyBag)
         ELSE Ret(m, EmptyBag)
    ELSE CASE key = "ctrl+c" -> Ret([m EXCEPT !.quit = TRUE], EmptyBag)
           [] key = "ctrl+s" -> Ret([m EXCEPT !.statsComp.visible = ~@], EmptyBag)
           [] key = "enter" ->
                LET m0 == [m EXCEPT !.input.value = input]
                    in0 == TrimSpace(input)
                    in1 == IF IsCommand(in0) /\ sugg # "" THEN <<"/", sugg>> ELSE in0
                    \* m.suggestions = nil; m.selectedSuggestion = 0
                    m1 == [m0 EXCEPT !.suggestions = << >>, !.selectedSuggestion = 0]
                IN
                IF in0 = << >> THEN Ret(m0, EmptyBag)
                ELSE IF IsCommand(in1)
                THEN LET r == HandleCommand(m1, in1, clipOk) IN
                     CASE r.cmd = "quit" -> Ret([r.m EXCEPT !.quit = TRUE], EmptyBag)
                       [] r.cmd = "reload" -> Ret(r.m, SetToBag({Cmd("reload", 0, NoMsg)}))
                       [] OTHER -> Ret(r.m, EmptyBag)
                ELSE Ret(Reset([m1 EXCEPT !.messages = Append(@, Message("user", in1)),
                                          !.streaming = TRUE,
                                          !.streamContent = << >>]),
                         SetToBag({StreamResponseCmd}))
           [] OTHER -> Ret(m, EmptyBag)

\* case tea.KeyMsg. key: the key type; input: m.input.Value(), the text the
\* user has typed when the key arrives (keys typed while streaming are
\* dropped); sugg: the name of m.suggestions[m.selectedSuggestion], "" when
\* there are no suggestions.
\* UpdateKey, but Ctrl+C quits while streaming too
UpdateKeyCtrlCAlwaysQuits(m, key, input, sugg, clipOk) ==
    IF key = "ctrl+c" THEN Ret([m EXCEPT !.quit = TRUE], EmptyBag)
    ELSE UpdateKeyEnterWhileStreaming(m, key, input, sugg, clipOk)

UpdateKey(m, key, input, sugg, clipOk) ==
    IF m.streaming
    THEN IF key = "ctrl+c"
         THEN Ret([m EXCEPT !.streaming = FALSE, !.err = "streaming cancelled"], EmptyBag)
         ELSE Ret(m, EmptyBag)
    ELSE CASE key = "ctrl+c" -> Ret([m EXCEPT !.quit = TRUE], EmptyBag)
           [] key = "ctrl+s" -> Ret([m EXCEPT !.statsComp.visible = ~@], EmptyBag)
           [] key = "enter" ->
                LET m0 == [m EXCEPT !.input.value = input]
                    in0 == TrimSpace(input)
                    in1 == IF IsCommand(in0) /\ sugg # "" THEN <<"/", sugg>> ELSE in0
                    \* m.suggestions = nil; m.selectedSuggestion = 0
                    m1 == [m0 EXCEPT !.suggestions = << >>, !.selectedSuggestion = 0]
                IN
                IF in0 = << >> THEN Ret(m0, EmptyBag)
                ELSE IF IsCommand(in1)
                THEN LET r == HandleCommand(m1, in1, clipOk) IN
                     CASE r.cmd = "quit" -> Ret([r.m EXCEPT !.quit = TRUE], EmptyBag)
                       [] r.cmd = "reload" -> Ret(r.m, SetToBag({Cmd("reload", 0, NoMsg)}))
                       [] OTHER -> Ret(r.m, EmptyBag)
                ELSE Ret(Reset([m1 EXCEPT !.messages = Append(@, Message("user", in1)),
                                          !.streaming = TRUE,
                                          !.streamContent = << >>]),
                         SetToBag({StreamResponseCmd}))
           [] OTHER -> Ret(m, EmptyBag)

\* case streamStartMsg
UpdateStreamStartMsg(m, msg) ==
    LET m1 == [m EXCEPT !.streamChan = msg.s, !.streamStats = msg.s] IN
    Ret(m1, WaitForChunk(m1))

\* UpdateStreamChunkMsg, but a fragment is put in front of the buffer
UpdateStreamChunkMsgPrepend(m, msg) ==
    IF msg.chunk.Error # ""
    THEN Ret([m EXCEPT !.streaming = FALSE, !.streamChan = 0, !.err = msg.chunk.Error],
             EmptyBag)
    ELSE IF msg.chunk.Done
    THEN LET m1 == [m EXCEPT !.streaming = FALSE, !.streamChan = 0]
             m2 == IF m.streamContent # << >>
                   THEN [m1 EXCEPT !.messages =
                            Append(@, Message("assistant", m.streamContent))]
                   ELSE m1
         IN  Ret([m2 EXCEPT !.statsComp.stats = m.streamStats], EmptyBag)
    ELSE LET m1 == [m EXCEPT !.streamContent = msg.chunk.Content \o @] IN
         Ret(m1, WaitForChunk(m1))

\* UpdateStreamChunkMsg, but Done appends the buffer even when it is empty
UpdateStreamChunkMsgAlwaysAppend(m, msg) ==
    IF msg.chunk.Error # ""
    THEN Ret([m EXCEPT !.streaming = FALSE, !.streamChan = 0, !.err = msg.chunk.Error],
             EmptyBag)
    ELSE IF msg.chunk.Done
    THEN LET m1 == [m EXCEPT !.streaming = FALSE, !.streamChan = 0,
                             !.messages = Append(@, Message("assistant", m.streamContent))]
         IN  Ret([m1 EXCEPT !.statsComp.stats = m.streamStats], EmptyBag)
    ELSE LET m1 == [m EXCEPT !.streamContent = @ \o msg.chunk.Content] IN
         Ret(m1, WaitForChunk(m1))

\* case streamChunkMsg
UpdateStreamChunkMsg(m, msg) ==
    IF msg.chunk.Error # ""
    THEN Ret([m EXCEPT !.streaming = FALSE, !.streamChan = 0, !.err = msg.chunk.Error],
             EmptyBag)
    ELSE IF msg.chunk.Done
    THEN LET m1 == [m EXCEPT !.streaming = FALSE, !.streamChan = 0]
             m2 == IF m.streamContent # << >>
                   THEN [m1 EXCEPT !.messages =
                            Append(@, Message("assistant", m.streamContent))]
                   ELSE m1
         IN  Ret([m2 EXCEPT !.statsComp.stats = m.streamStats], EmptyBag)
    ELSE LET m1 == [m EXCEPT !.streamContent = @ \o msg.chunk.Content] IN
         Ret(m1, WaitForChunk(m1))

\* case streamCompleteMsg
UpdateStreamCompleteMsg(m, msg) ==
    LET m1 == [m EXCEPT !.streaming = FALSE, !.streamChan = 0,
                        !.statsComp.stats = msg.s]
    IN  Ret(IF m.streamContent # << >>
            THEN [m1 EXCEPT !.messages = Append(@, Message("assistant", m.streamContent))]
            ELSE m1,
            EmptyBag)

\* case errorMsg, but the streaming state is kept
UpdateErrorMsgKeepsStreaming(m, msg) ==
    Ret([m EXCEPT !.err = msg.err], EmptyBag)

\* case errorMsg
UpdateErrorMsg(m, msg) ==
    Ret([m EXCEPT !.err = msg.err, !.streaming = FALSE], EmptyBag)

\* configReloadedMsg{config: cfg}
ConfigReloadedMsg(cfg) ==
    [type |-> "configReloadedMsg", chunk |-> DoneChunk, s |-> 0, err |-> "",
     config |-> cfg]

\* case configReloadedMsg, but the stream is given up as in case errorMsg
UpdateConfigReloadedMsgStops(m, msg) ==
    Ret([m EXCEPT !.config = msg.config,
                  !.temperature = msg.config.Temperature,
                  !.model = msg.config.Model,
                  !.err = "",
                  !.streaming = FALSE], EmptyBag)

\* case configReloadedMsg: m.client is a new client of the loaded config
UpdateConfigReloadedMsg(m, msg) ==
    Ret([m EXCEPT !.config = msg.config,
                  !.temperature = msg.config.Temperature,
                  !.model = msg.config.Model,
                  !.err = ""], EmptyBag)

-----------------------------------------------------------------------------
(* The controller's events *)

\* Inputs typed by the user of the controller specification
Inputs == { <<"hi">>, <<" ">> }

\* Response bodies of the controller specification
Line(pay) == <<"data:", " ", pay>>
CtlBodies ==
    { [lines |-> <<Line(PayA), Line(PayB), Line(Sentinel)>>, nl |-> TRUE, end |-> "EOF"],
      [lines |-> <<Line(PayB)>>, nl |-> TRUE, end |-> "EOF"],
      [lines |-> <<Line(PayA)>>, nl |-> TRUE, end |-> "read error"],
      [lines |-> <<Line(PayRole)>>, nl |-> TRUE, end |-> "EOF"] }

\* ChatStream calls running or returned
Requests == Len(streams) + CopiesIn(StreamResponseCmd, cmds)

KeyCtrlC ==
    /\ ~quit
    /\ LET r == UpdateKey(M, "ctrl+c", << >>, "", TRUE) IN
         /\ SetM(r.m)
         /\ cmds' = cmds (+) r.cmds
    /\ hist' = IF streaming
               THEN [hist EXCEPT !.cancelled = TRUE, !.everCancelled = TRUE]
               ELSE hist
    /\ UNCHANGED <<streams, now>>

\* m.handleCommand's closure for /reload, not yet run
ReloadCmd == Cmd("reload", 0, NoMsg)

\* The names m.suggestions[m.selectedSuggestion] can have with the line in the
\* input component: m.suggestions is GetSuggestions of the line (lines
\* 1093-1094), or nil after Tab (line 972)
SuggestionsAt(line) == { GetSuggestions(line)[i] : i \in DOMAIN GetSuggestions(line) }

\* clipboard.WriteAll is called by /copy alone (line 1325)
ClipsAt(line, clips) == IF ParseCommand(line).Name = "copy" THEN clips ELSE {TRUE}

\* The user has typed one of the inputs and presses Enter; clips: the outcomes
\* of clipboard.WriteAll
KeyEnterOn(inputs, clips, maxStreams, maxMsgs) ==
    /\ ~quit
    /\ \E line \in inputs :
       \E clipOk \in ClipsAt(line, clips), sugg \in {""} \cup SuggestionsAt(line) :
         /\ ~IsCommand(line) => Requests < maxStreams
         /\ LET r == UpdateKey(M, "enter", line, sugg, clipOk) IN
              /\ Len(r.m.messages) <= maxMsgs
              /\ SetM(r.m)
              /\ cmds' = cmds (+) r.cmds
              /\ hist' = IF BagIn(StreamResponseCmd, r.cmds)
                         THEN [hist EXCEPT !.turn = r.m.messages,
                                           !.cancelled = FALSE, !.errored = FALSE]
                         ELSE hist
    /\ UNCHANGED <<streams, now>>

KeyEnter == KeyEnterOn(Inputs, {TRUE}, MaxStreams, MaxMsgs)

\* The streamResponse closure runs: ChatStream fails (no response, or a status
\* other than 200), or starts the reader goroutine on a body.
RunStreamResponseOn(bodies) ==
    /\ ~quit
    /\ BagIn(StreamResponseCmd, cmds)
    /\ \/ \E e \in {"failed to send request", "API error"} :
            /\ cmds' = (cmds (-) SetToBag({StreamResponseCmd}))
                         (+) SetToBag({SendCmd(Msg("errorMsg", DoneChunk, 0, e))})
            /\ streams' = Append(streams, FailedStream(e, now, messages))
       \/ \E body \in bodies :
            /\ streams' = Append(streams, NewStream(body, now, messages))
            /\ cmds' = (cmds (-) SetToBag({StreamResponseCmd}))
                         (+) SetToBag({SendCmd(Msg("streamStartMsg", DoneChunk,
                                                   Len(streams) + 1, ""))})
    /\ UNCHANGED <<ctlVars, now>>

RunStreamResponse == RunStreamResponseOn(CtlBodies)

\* The waitForChunk closure starts: it evaluates m.streamChan
WaitBind ==
    /\ ~quit
    /\ BagIn(Cmd("wait", 0, NoMsg), cmds)
    /\ cmds' = (cmds (-) SetToBag({Cmd("wait", 0, NoMsg)}))
                 (+) SetToBag({Cmd("recv", streamChan, NoMsg)})
    /\ UNCHANGED <<ctlVars, streams, now>>

\* chunk, ok := <-ch in the waitForChunk closure: a chunk, or !ok on the closed
\* and drained channel; a nil channel blocks for ever.  The closure that
\* returns streamCompleteMsg keeps the channel it found closed.
WaitRecv ==
    /\ ~quit
    /\ \E c \in BagToSet(cmds) :
         /\ c.pc = "recv"
         /\ c.ch # 0
         /\ LET st == streams[c.ch] IN
            \/ /\ st.chan # << >>
               /\ streams' = [streams EXCEPT ![c.ch].chan = Tail(@)]
               /\ cmds' = (cmds (-) SetToBag({c}))
                            (+) SetToBag({SendCmd(Msg("streamChunkMsg", Head(st.chan),
                                                      c.ch, ""))})
            \/ /\ st.chan = << >>
               /\ st.closed
               /\ UNCHANGED streams
               /\ cmds' = (cmds (-) SetToBag({c}))
                            (+) SetToBag({Cmd("send", c.ch,
                                              Msg("streamCompleteMsg", DoneChunk,
                                                  streamStats, ""))})
    /\ UNCHANGED <<ctlVars, now>>

\* The event loop takes the message of a closure in p.Send and runs Update
Deliver(type, c, r) ==
    /\ ~quit
    /\ c.pc = "send"
    /\ c.msg.type = type
    /\ SetM(r.m)
    /\ cmds' = (cmds (-) SetToBag({c})) (+) r.cmds
    /\ hist' = LET h == IF type = "streamChunkMsg"
                        THEN [hist EXCEPT
                                !.errored = @ \/ (c.msg.chunk.Error # "" /\ streaming),
                                !.seen = Append(@, <<c.msg.s, c.msg.chunk>>)]
                        ELSE hist
                   \* the stream whose terminal event appended a message
                   ch == IF type = "streamChunkMsg" THEN c.msg.s ELSE c.ch
               IN  IF type \in {"streamChunkMsg", "streamCompleteMsg"}
                      /\ Len(r.m.messages) > Len(messages)
                   THEN [h EXCEPT !.commits = Append(@, ch)]
                   ELSE h
    /\ UNCHANGED <<streams, now>>

OnStreamStartMsg ==
    \E c \in BagToSet(cmds) : Deliver("streamStartMsg", c, UpdateStreamStartMsg(M, c.msg))

OnStreamChunkMsg ==
    \E c \in BagToSet(cmds) : Deliver("streamChunkMsg", c, UpdateStreamChunkMsg(M, c.msg))

OnStreamCompleteMsg ==
    \E c \in BagToSet(cmds) :
        Deliver("streamCompleteMsg", c, UpdateStreamCompleteMsg(M, c.msg))

OnErrorMsg ==
    \E c \in BagToSet(cmds) : Deliver("errorMsg", c, UpdateErrorMsg(M, c.msg))

Producer ==
    \E s \in 1..MaxStreams + 1 :
        \/ ProdRead(s)
        \/ ProdSendContent(s)
        \/ ProdSendError(s)
        \/ ProdFinalize(s)
        \/ ProdSendDone(s)
        \/ ProdClose(s)

\* config of the controller specification
Configs ==
    { [SystemPrompt |-> sp, ShowStats |-> TRUE, Temperature |-> 7, Model |-> "gpt-4"] :
        sp \in { <<"You are a helpful assistant">> } }

NoHist == [turn |-> << >>, cancelled |-> FALSE, everCancelled |-> FALSE,
           errored |-> FALSE, seen |-> << >>, commits |-> << >>]

Init ==
    /\ \E cfg \in Configs : SetInit(NewChatModel(cfg))
    /\ cmds = EmptyBag
    /\ streams = << >>
    /\ now = 1
    /\ hist = NoHist

Next ==
    \/ KeyCtrlC
    \/ KeyEnter
    \/ RunStreamResponse
    \/ WaitBind
    \/ WaitRecv
    \/ OnStreamStartMsg
    \/ OnStreamChunkMsg
    \/ OnStreamCompleteMsg
    \/ OnErrorMsg
    \/ Producer

Spec == Init /\ [][Next]_vars

-----------------------------------------------------------------------------
(* The controller with slash commands: texts and commands are submitted, one
   turn at most, and no Ctrl+C *)

\* the command lines typed, and one text
CmdLines ==
    { <<"hi">>,
      <<"/", "help">>, <<"/", "NEW">>, <<"/", "Delete">>, <<"/", "save">>,
      <<"/", "temp", " ", "0.5">>,
      <<" ", "/", "system", " ", "Be", " ", " ", "brief">> }

CmdBodies ==
    { [lines |-> <<Line(PayA)>>, nl |-> TRUE, end |-> "EOF"],
      [lines |-> <<Line(PayA)>>, nl |-> TRUE, end |-> "read error"] }

\* the configurations at start
CmdConfigs ==
    { [SystemPrompt |-> sp, ShowStats |-> TRUE, Temperature |-> 7, Model |-> "gpt-4"] :
        sp \in { <<"You are a helpful assistant">>, << >> } }

KeyEnterCmd == KeyEnterOn(CmdLines, BOOLEAN, MaxCmdStreams, MaxCmdMsgs)

RunStreamResponseCmd == RunStreamResponseOn(CmdBodies)

InitCmd ==
    /\ \E cfg \in CmdConfigs : SetInit(NewChatModel(cfg))
    /\ cmds = EmptyBag
    /\ streams = << >>
    /\ now = 1
    /\ hist = NoHist

NextCmd ==
    \/ KeyEnterCmd
    \/ RunStreamResponseCmd
    \/ WaitBind
    \/ WaitRecv
    \/ OnStreamStartMsg
    \/ OnStreamChunkMsg
    \/ OnErrorMsg
    \/ Producer

SpecCmd == InitCmd /\ [][NextCmd]_vars

-----------------------------------------------------------------------------
(* The controller on a response longer than the channel buffer *)

\* the lines of the long response
LongLen == 10

\* the first response: LongLen data lines with text, then a failing read
LongBodies ==
    { [lines |-> [i \in 1..LongLen |-> Line(PayA)], nl |-> TRUE, end |-> "read error"] }

\* the later responses
ShortBodies == { [lines |-> <<Line(PayB)>>, nl |-> TRUE, end |-> "EOF"] }

KeyEnterLong == KeyEnterOn({ <<"hi">> }, {TRUE}, MaxLongStreams, MaxMsgs)

RunStreamResponseLong ==
    RunStreamResponseOn(IF streams = << >> THEN LongBodies ELSE ShortBodies)

\* Ctrl+C pressed to cancel a stream
KeyCtrlCStreaming == streaming /\ KeyCtrlC

NextLong ==
    \/ KeyCtrlCStreaming
    \/ KeyEnterLong
    \/ RunStreamResponseLong
    \/ WaitBind
    \/ WaitRecv
    \/ OnStreamStartMsg
    \/ OnStreamChunkMsg
    \/ OnStreamCompleteMsg
    \/ OnErrorMsg
    \/ Producer

SpecLong == Init /\ [][NextLong]_vars

-----------------------------------------------------------------------------
(* The producer alone: one ChatStream call on every body of the bounds *)

\* Sequences over S of length at most n
RECURSIVE SeqsUpTo(_, _)
SeqsUpTo(S, n) ==
    IF n = 0 THEN { << >> }
    ELSE LET shorter == SeqsUpTo(S, n - 1) IN
         shorter \cup { Append(q, x) : q \in shorter, x \in S }

\* Raw lines of SpecStream: empty, a field other than data, data without the
\* space, deltas (one with white space around the line), a payload that does
\* not decode, payloads without text, the sentinel, and the sentinel after two
\* spaces
StreamLines ==
    { << >>, <<"event:", " ", "ping">>, <<"data:", PayA>>,
      Line(PayA), Line(PayB), <<" ", "data:", " ", PayB, " ">>,
      Line(PayBad), Line(PayRole), Line(PayNoChoice),
      Line(Sentinel), <<"data:", " ", " ", Sentinel>> }

StreamBodies ==
    { [lines |-> l, nl |-> nl, end |-> e] :
        l \in SeqsUpTo(StreamLines, MaxBody), nl \in BOOLEAN, e \in {"EOF", "read error"} }

InitStreamOn(bodies) ==
    /\ SetInit(NewChatModel(CHOOSE cfg \in Configs : TRUE))
    /\ cmds = EmptyBag
    /\ \E body \in bodies : streams = <<NewStream(body, 1, << >>)>>
    /\ now = 1
    /\ hist = NoHist

InitStream == InitStreamOn(StreamBodies)

NextStream == Producer

SpecStream == InitStream /\ [][NextStream]_vars

\* The producer and the clock
TimedLines == { Line(PayA), Line(PayRole), Line(Sentinel) }

TimedBodies ==
    { [lines |-> l, nl |-> TRUE, end |-> e] :
        l \in SeqsUpTo(TimedLines, MaxTimedBody), e \in {"EOF", "read error"} }

InitTime == InitStreamOn(TimedBodies)

NextTime == Producer \/ Tick

SpecTime == InitTime /\ [][NextTime]_vars

-----------------------------------------------------------------------------
(* Properties of the producer (SpecStream, SpecTime): the one stream is 1 *)

TheStream == streams[1]

IsTerminal(c) == c.Done \/ c.Error # ""
IsContent(c) == ~c.Done /\ c.Error = ""

\* The texts of the Content chunks of a chunk sequence, in order
ContentsOf(chunks) ==
    LET cs == SelectSeq(chunks, IsContent) IN [i \in 1..Len(cs) |-> cs[i].Content]

ErrorsOf(chunks) == SelectSeq(chunks, LAMBDA c : c.Error # "")

\* The goroutine has passed the finalization block
Finalized(st) == st.pc \in {"sendDone", "close", "exit"}

\* Line i of the body ends with '\n': ReadBytes returns it without an error
Complete(body, i) == i \in 1..Len(body.lines) /\ (i < Len(body.lines) \/ body.nl)

\* The line, once the white space around it is trimmed, is "data: [DONE]"
IsSentinelLine(raw) == TrimSpace(raw) = Line(Sentinel)

\* C5: in every chunk sequence of ChatStream a chunk with Error set or with
\* Done = true is the last chunk sent on the channel; no chunk follows it.
C5_TerminalChunkIsLast ==
    \A i \in 1..Len(TheStream.sent) :
        IsTerminal(TheStream.sent[i]) => i = Len(TheStream.sent)

\* The transport fails before a sentinel is read: the read loop gets an error
\* other than io.EOF
ReadFails(body) ==
    /\ body.end = "read error"
    /\ \A i \in 1..Len(body.lines) : Complete(body, i) => ~IsSentinelLine(body.lines[i])

\* C6: when the transport read fails with an error other than end-of-body the
\* producer sends exactly one Error chunk carrying the cause, after it
\* finalizes the stats (EndTime, Latency, OutputTokens = the tokens counted
\* before the failure), and after that closes the channel.
C6_ReadErrorThenFinalizeThenClose ==
    LET st == TheStream IN
    ReadFails(st.body) =>
        /\ st.pc \in {"read", "sendContent", "sendError"} =>
              /\ ErrorsOf(st.sent) = << >>
              /\ st.stats.EndTime = 0
        /\ st.pc = "finalize" =>
              /\ st.sent[Len(st.sent)] = ErrorChunk("stream read error")
              /\ st.stats.EndTime = 0
        /\ st.pc \in {"finalize", "sendDone", "close", "exit"} =>
              ErrorsOf(st.sent) = <<ErrorChunk("stream read error")>>
        /\ Finalized(st) =>
              /\ st.stats.EndTime >= st.stats.StartTime
              /\ st.stats.Latency = st.stats.EndTime - st.stats.StartTime
              /\ st.stats.OutputTokens = Len(ContentsOf(st.sent))
              /\ st.stats.OutputTokens = st.tokenCount
        /\ st.closed <=> st.pc = "exit"
        /\ st.pc = "exit" => st.bodyClosed

C6_Witness ==
    /\ ReadFails(TheStream.body)
    /\ TheStream.pc = "exit"
    /\ TheStream.closed
    /\ TheStream.stats.OutputTokens = 2

\* A well-formed line of an SSE body of the chat completions protocol: an empty
\* line, a field other than data, or "data: " and one payload that is the
\* sentinel or decodes
IsDataLine(l) == Len(l) = 3 /\ l[1] = "data:" /\ l[2] = " "
WellFormedLine(l) ==
    \/ l = << >>
    \/ l[1] \notin {" ", "data:"} /\ l[Len(l)] # " "
    \/ IsDataLine(l) /\ (l[3] = Sentinel \/ JsonUnmarshal(<<l[3]>>).ok)

\* The text delta a data payload carries (empty when it carries none)
TextDelta(p) ==
    LET r == JsonUnmarshal(<<p>>) IN
    IF r.ok /\ Len(r.choices) > 0 THEN r.choices[1] ELSE << >>

\* The non-empty text deltas of the data payloads of a body, in body order
RECURSIVE DeltasOf(_)
DeltasOf(lines) ==
    IF lines = << >> THEN << >>
    ELSE LET l == Head(lines) IN
         (IF IsDataLine(l) /\ l[3] # Sentinel /\ TextDelta(l[3]) # << >>
          THEN <<TextDelta(l[3])>> ELSE << >>) \o DeltasOf(Tail(lines))

\* The body is well-formed and its last line, and no other, is the sentinel
TerminatedBySentinel(body) ==
    /\ body.lines # << >>
    /\ \A i \in 1..Len(body.lines) :
          /\ WellFormedLine(body.lines[i])
          /\ body.lines[i] = Line(Sentinel) <=> i = Len(body.lines)

\* C8: for every well-formed SSE body terminated by the [DONE] sentinel, once
\* the producer has ended, the Content chunks it sent carry exactly the
\* non-empty text deltas of the body's data payloads, in body order (so there
\* are as many chunks as such payloads), and stats.OutputTokens is that number.
C8_ContentChunksAreTheDeltas ==
    LET st == TheStream IN
    (st.pc = "exit" /\ TerminatedBySentinel(st.body)) =>
        /\ ContentsOf(st.sent) = DeltasOf(st.body.lines)
        /\ st.stats.OutputTokens = Len(DeltasOf(st.body.lines))

C8_Witness ==
    /\ TheStream.pc = "exit"
    /\ TerminatedBySentinel(TheStream.body)
    /\ ContentsOf(TheStream.sent) = << <<"b">>, <<"a">> >>
    /\ TheStream.stats.OutputTokens = 2

\* The lines the read loop passes over, as it sees them after bytes.TrimSpace:
\* blank, without the "data: " prefix, a payload other than the sentinel that
\* does not decode, or one that decodes with no choice or an empty delta
IsSkippedLine(raw) ==
    LET line == TrimSpace(raw) IN
    \/ line = << >>
    \/ ~(Len(line) >= 2 /\ line[1] = "data:" /\ line[2] = " ")
    \/ /\ Len(line) >= 2 /\ line[1] = "data:" /\ line[2] = " "
       /\ SubSeq(line, 3, Len(line)) # <<Sentinel>>
       /\ LET r == JsonUnmarshal(SubSeq(line, 3, Len(line))) IN
          ~r.ok \/ Len(r.choices) = 0 \/ r.choices[1] = << >>

\* C9: a read of a blank line, of a line without the "data: " prefix, of a
\* payload that does not decode, or of one with no or an empty text delta sends
\* no chunk, leaves tokenCount and firstTokenReceived as they were and goes on
\* reading; a read of the payload [DONE] sends nothing and leaves the loop, and
\* from then on no further line is read, no Content chunk is sent, and the
\* stream ends with the Done chunk.
C9_ParsingDiscipline ==
    /\ [][ LET st == streams[1]
               r == ReadBytes(st.body, st.pos) IN
           (st.pc = "read" /\ r.err = "" /\ streams'[1] # st) =>
              /\ IsSkippedLine(r.line) =>
                    /\ streams'[1].sent = st.sent
                    /\ streams'[1].chan = st.chan
                    /\ streams'[1].tokenCount = st.tokenCount
                    /\ streams'[1].firstTokenReceived = st.firstTokenReceived
                    /\ streams'[1].stats = st.stats
                    /\ streams'[1].pc = "read"
                    /\ streams'[1].pos = st.pos + 1
              /\ IsSentinelLine(r.line) =>
                    /\ streams'[1].sent = st.sent
                    /\ streams'[1].tokenCount = st.tokenCount
                    /\ streams'[1].pc = "finalize"
              /\ IsSkippedLine(r.line) \/ IsSentinelLine(r.line)
                    \/ streams'[1].pc = "sendContent" ]_vars
    /\ [](\A k \in 1..TheStream.pos :
            (Complete(TheStream.body, k) /\ IsSentinelLine(TheStream.body.lines[k])) =>
               /\ TheStream.pos = k
               /\ TheStream.pc \in {"finalize", "sendDone", "close", "exit"}
               /\ Len(ContentsOf(TheStream.sent)) = TheStream.tokenCount
               /\ TheStream.pc \in {"close", "exit"} =>
                     TheStream.sent[Len(TheStream.sent)] = DoneChunk)

\* a skipped line of each kind was passed over, a delta was sent, and the
\* sentinel ended the stream before the last line of the body
C9_Witness ==
    /\ TheStream.pc = "exit"
    /\ TheStream.body.lines = <<Line(PayBad), Line(Sentinel), Line(PayA)>>
    /\ TheStream.pos = 2
    /\ TheStream.sent = <<DoneChunk>>

\* TimeToFirstToken is set: it is assigned together with FirstTokenTime
\* (lines 546-547), and no clock reading is the zero time
TimeToFirstTokenSet(st) == st.stats.FirstTokenTime # 0

\* C10: once the stream has terminated, TimeToFirstToken is set if and only
\* if the stream produced at least one Content chunk, and when it is set,
\* 0 <= TimeToFirstToken <= Latency; the clock never goes backwards.
C10_TimeToFirstToken ==
    LET st == TheStream IN
    Finalized(st) =>
        /\ TimeToFirstTokenSet(st) <=> ContentsOf(st.sent) # << >>
        /\ TimeToFirstTokenSet(st) =>
              /\ 0 <= st.stats.TimeToFirstToken
              /\ st.stats.TimeToFirstToken <= st.stats.Latency
        /\ ~TimeToFirstTokenSet(st) => st.stats.TimeToFirstToken = 0

C10_Witness ==
    /\ TheStream.pc = "exit"
    /\ Len(ContentsOf(TheStream.sent)) = 2
    /\ TheStream.stats.TimeToFirstToken = 1
    /\ TheStream.stats.Latency = 2

\* C11: once the stream has terminated, PostFirstTokenSpeed is set only when
\* OutputTokens >= 2, a stream that sent no or one Content chunk has
\* OutputTokens equal to that number and PostFirstTokenSpeed at its zero
\* value, and TokensPerSec is set only when OutputTokens > 0.
C11_SpeedsNeedTokens ==
    LET st == TheStream
        n == Len(ContentsOf(st.sent)) IN
    Finalized(st) =>
        /\ st.stats.PostFirstTokenSpeed # ZeroFloat => st.stats.OutputTokens >= 2
        /\ n <= 1 => /\ st.stats.OutputTokens = n
                     /\ st.stats.PostFirstTokenSpeed = ZeroFloat
        /\ st.stats.TokensPerSec # ZeroFloat => st.stats.OutputTokens > 0

\* one delta and the sentinel, with time passing after the first token: one
\* token counted, a speed over the whole stream, none after the first token
C11_Witness ==
    /\ TheStream.pc = "exit"
    /\ TheStream.body.lines = <<Line(PayA), Line(Sentinel)>>
    /\ TheStream.stats.OutputTokens = 1
    /\ TheStream.stats.GenerationTime = 2
    /\ TheStream.stats.TokensPerSec = <<1, 3>>
    /\ TheStream.stats.PostFirstTokenSpeed = ZeroFloat

\* C12: FirstTokenTime and TimeToFirstToken are assigned once in a stream: by
\* the read of the first payload with a non-empty delta, before its Content
\* chunk is sent; once assigned, no later step changes them.
C12_FirstTokenOnce ==
    /\ [][ LET st == streams[1] IN
           (st.stats.FirstTokenTime = 0 /\ streams'[1].stats.FirstTokenTime # 0) =>
              /\ st.pc = "read"
              /\ ClassifyLine(ReadBytes(st.body, st.pos).line).content # << >>
              /\ ContentsOf(st.sent) = << >>
              /\ st.tokenCount = 0
              /\ streams'[1].pc = "sendContent"
              /\ streams'[1].sent = st.sent
              /\ streams'[1].stats.FirstTokenTime = now
              /\ streams'[1].stats.TimeToFirstToken = now - st.stats.StartTime ]_vars
    /\ [][ streams[1].stats.FirstTokenTime # 0 =>
              /\ streams'[1].stats.FirstTokenTime = streams[1].stats.FirstTokenTime
              /\ streams'[1].stats.TimeToFirstToken = streams[1].stats.TimeToFirstToken
         ]_vars
    /\ [](TheStream.stats.FirstTokenTime = 0 =>
              /\ TheStream.stats.TimeToFirstToken = 0
              /\ TheStream.tokenCount = 0
              /\ ContentsOf(TheStream.sent) = << >>)

\* three Content chunks, the first read at time 2 and the last not before 3
C12_Witness ==
    /\ Len(ContentsOf(TheStream.sent)) = 3
    /\ TheStream.stats.FirstTokenTime = 2
    /\ TheStream.stats.TimeToFirstToken = 1
    /\ now = 3
    /\ TheStream.pc = "read"

\* C13: a stream that terminates, by end of body, sentinel or read error, runs
\* the finalization once: before it EndTime, Latency, OutputTokens and
\* GenerationTime are unset and no Done chunk is sent; after it EndTime is set,
\* Latency = EndTime - StartTime, OutputTokens = tokenCount, and GenerationTime
\* is EndTime - FirstTokenTime if a first token was observed and unset if not;
\* and from then on, so also after the Done chunk, no step writes the stats.
C13_FinalizedOnceBeforeDone ==
    /\ [](LET st == TheStream IN
          IF Finalized(st)
          THEN /\ st.stats.EndTime # 0
               /\ st.stats.Latency = st.stats.EndTime - st.stats.StartTime
               /\ st.stats.OutputTokens = st.tokenCount
               /\ st.stats.GenerationTime =
                     IF st.firstTokenReceived
                     THEN st.stats.EndTime - st.stats.FirstTokenTime ELSE 0
          ELSE /\ st.stats.EndTime = 0
               /\ st.stats.Latency = 0
               /\ st.stats.OutputTokens = 0
               /\ st.stats.GenerationTime = 0
               /\ \A i \in 1..Len(st.sent) : ~st.sent[i].Done)
    /\ [][ Finalized(streams[1]) => streams'[1].stats = streams[1].stats ]_vars
    /\ [](TheStream.pc = "exit" => Finalized(TheStream) /\ TheStream.closed)

\* a stream with a first token ended by a read error: finalized at time 3,
\* Done sent and the goroutine gone at time 4
C13_Witness ==
    /\ TheStream.pc = "exit"
    /\ TheStream.body.end = "read error"
    /\ ErrorsOf(TheStream.sent) # << >>
    /\ TheStream.firstTokenReceived
    /\ TheStream.stats.EndTime = 3
    /\ TheStream.stats.GenerationTime = 1
    /\ now = 4

-----------------------------------------------------------------------------
(* Properties of the controller (Spec) *)

\* The step is the event loop running Update on the message of closure c
Delivered(c) == c.pc = "send" /\ CopiesIn(c, cmds') < CopiesIn(c, cmds)

\* The step is Update on a streamChunkMsg with the chunk
ChunkDelivered(c, chunk) ==
    Delivered(c) /\ c.msg.type = "streamChunkMsg" /\ c.msg.chunk = chunk

RECURSIVE Concat(_)
Concat(ss) == IF ss = << >> THEN << >> ELSE Head(ss) \o Concat(Tail(ss))

\* C1: after a Ctrl+C while streaming, and until the user submits again,
\* messages stays as it was at the cancellation: no step appends an assistant
\* message, whatever chunks of the cancelled stream still arrive.
C1_CancelFreezesMessages ==
    [][ (hist.cancelled /\ hist'.cancelled) => messages' = messages ]_vars

\* C2: a text u is submitted while idle, no cancellation or error occurs, and
\* the stream delivers the fragments f1..fn, n >= 1, and Done: at the Done
\* messages is the history before the turn, then {user, u}, then {assistant,
\* f1 \o ... \o fn}, and nothing else.
C2_RoundTrip ==
    [][ \A c \in BagToSet(cmds) :
          (/\ ChunkDelivered(c, DoneChunk)
           /\ streaming
           /\ ~hist.everCancelled
           /\ ContentsOf(streams[c.msg.s].sent) # << >>) =>
              /\ hist.turn[Len(hist.turn)].Role = "user"
              /\ messages' = Append(hist.turn,
                     Message("assistant", Concat(ContentsOf(streams[c.msg.s].sent)))) ]_vars

\* a turn of two fragments after a turn of one fragment, both committed
C2_Witness ==
    /\ ~hist.everCancelled
    /\ ~streaming
    /\ Len(messages) = 5
    /\ messages[3] = Message("assistant", <<"b">>)
    /\ messages[4] = Message("user", <<"hi">>)
    /\ messages[5] = Message("assistant", <<"a", "b">>)

\* C3: in every state of the controller streamContent is non-empty only if
\* streaming is true.
C3_BufferOnlyWhileStreaming == streamContent # << >> => streaming

\* C4: Update on a Done chunk while streaming sets streaming to false, puts
\* streamStats into the stats component (the stats of the stream the chunk
\* came from, when no stream was cancelled before), and appends one assistant
\* message with the buffer as content if the buffer is non-empty, none if it
\* is empty.
C4_DoneCommits ==
    [][ \A c \in BagToSet(cmds) :
          (ChunkDelivered(c, DoneChunk) /\ streaming) =>
              /\ ~streaming'
              /\ statsComp'.stats = streamStats
              /\ ~hist.everCancelled => statsComp'.stats = c.msg.s
              /\ statsComp'.visible = statsComp.visible
              /\ streamContent # << >> =>
                    messages' = Append(messages, Message("assistant", streamContent))
              /\ streamContent = << >> => messages' = messages ]_vars

\* a Done on an empty buffer appended nothing, a later Done appended the
\* buffer, and the stats component holds the stats of the second stream
C4_Witness ==
    /\ ~streaming
    /\ ~hist.everCancelled
    /\ err = ""
    /\ statsComp.stats = 2
    /\ Len(messages) = 4
    /\ messages[2].Role = "user"
    /\ messages[3].Role = "user"
    /\ messages[4] = Message("assistant", <<"a", "b">>)

\* C7: Update on an Error chunk while streaming sets streaming to false, stores
\* the cause in err, leaves messages unchanged and returns no command; and until
\* the next submission no later step appends the partial buffer to messages.
C7_ErrorAbandons ==
    /\ [][ \A c \in BagToSet(cmds) :
             (ChunkDelivered(c, ErrorChunk("stream read error")) /\ streaming) =>
                 /\ ~streaming'
                 /\ err' = "stream read error"
                 /\ messages' = messages
                 /\ cmds' = cmds (-) SetToBag({c}) ]_vars
    /\ [][ (hist.errored /\ hist'.errored) => messages' = messages ]_vars

\* C14: in every state, the record the stats component holds is one whose
\* producer has completed its finalization and writes it no more.
C14_StatsComponentHoldsFinalRecord ==
    statsComp.stats # 0 => Finalized(streams[statsComp.stats])

\* The chunks of stream s that Update has processed, in the order processed
SeenOf(s) ==
    LET ps == SelectSeq(hist.seen, LAMBDA p : p[1] = s) IN
    [i \in 1..Len(ps) |-> ps[i][2]]

IsPrefix(p, q) == Len(p) <= Len(q) /\ p = SubSeq(q, 1, Len(p))

\* C15: for every stream, the chunks the controller has processed are a
\* prefix of the chunks the producer sent, in the same order, none dropped,
\* duplicated or merged; and the channel never buffers more than 10 chunks.
C15_ProcessedIsPrefixOfSent ==
    \A s \in DOMAIN streams :
        /\ IsPrefix(SeenOf(s), streams[s].sent)
        /\ Len(streams[s].chan) <= ChanCap

\* Key events other than Ctrl+C, texts in the input and selected suggestions
OtherKeys == {"enter", "ctrl+s", "ctrl+d", "tab", "up", "down", "runes"}
KeyTexts == Inputs \cup { <<"/", "new">>, <<"/", "exit">>, <<"/", "temp", " ", "1.5">> }
KeySuggestions == {"", "help"}

\* C17: while streaming is true, Update on any key other than Ctrl+C, Enter
\* with a text or a command in the input included, returns the controller as
\* it is (messages, streamContent, streamChan, the client, err and all other
\* fields) and no command: no message is appended, no command runs and no
\* request starts.
C17_KeysIgnoredWhileStreaming ==
    streaming =>
        \A key \in OtherKeys, input \in KeyTexts, sugg \in KeySuggestions, ok \in BOOLEAN :
            UpdateKey(M, key, input, sugg, ok) = Ret(M, EmptyBag)

\* a stream in flight with a fragment in the buffer
C17_Witness ==
    /\ streaming
    /\ streamChan = 1
    /\ streamContent = <<"a">>
    /\ Len(messages) = 2

\* C18: Update on a Content chunk while streaming makes the buffer buffer +
\* content, leaves messages unchanged, keeps streaming true and schedules
\* exactly one read of the next chunk; while streaming is false a chunk leaves
\* streamContent as it is.
C18_ContentFoldedOnlyWhileStreaming ==
    [][ \A c \in BagToSet(cmds) :
          (Delivered(c) /\ c.msg.type = "streamChunkMsg") =>
              /\ (streaming /\ IsContent(c.msg.chunk)) =>
                    /\ streamContent' = streamContent \o c.msg.chunk.Content
                    /\ messages' = messages
                    /\ streaming'
                    /\ cmds' = (cmds (-) SetToBag({c})) (+) SetToBag({Cmd("wait", 0, NoMsg)})
              /\ ~streaming => streamContent' = streamContent ]_vars

\* The step is Update on Enter that returned m.streamResponse()
Submitted ==
    CopiesIn(StreamResponseCmd, cmds') = CopiesIn(StreamResponseCmd, cmds) + 1

\* The step is the streamResponse closure calling ChatStream
Requested == Len(streams') = Len(streams) + 1

\* C19: submitting a text that is neither empty nor a command while not
\* streaming appends one user message with the trimmed text at the end of
\* messages, empties the buffer, sets streaming and issues one request; the
\* message list of that request is the history ending with the new user
\* message; Enter on a whitespace-only input changes nothing and sends nothing.
C19_SubmitStartsOneRequest ==
    /\ [][ Submitted =>
             /\ ~streaming
             /\ \E input \in Inputs :
                  /\ TrimSpace(input) # << >>
                  /\ messages' = Append(messages, Message("user", TrimSpace(input)))
             /\ streamContent' = << >>
             /\ streaming' ]_vars
    /\ [][ Requested => streams'[Len(streams')].request = hist.turn ]_vars
    /\ [](~streaming =>
            LET m0 == [M EXCEPT !.input.value = <<" ">>] IN
            UpdateKey(M, "enter", <<" ">>, "", TRUE) = Ret(m0, EmptyBag))

\* Command lines: every command of handleCommand, with arguments that pass
\* and that fail validation, unknown names, and the bare slash
AllCmdLines ==
    (CmdLines \ { <<"hi">> }) \cup
    { <<"/", "copy">>, <<"/", "exit">>, <<"/", "temp", " ", "3">>, <<"/", "HELP">>, <<"/", "clear">>, <<"/", "reload">>, <<"/", "stats">>,
      <<"/", "multiline">>, <<"/", "retry">>, <<"/">>, <<"/", " ">>,
      <<"/", "temp">>, <<"/", "temp", " ", "hot">>, <<"/", "temp", " ", "-1">>,
      <<"/", "temp", " ", "0", " ", "2">>, <<"/", "temp", " ", "2">>,
      <<"/", "system">>, <<"/", "hi">> }

\* The errors handleCommand sets
CommandErrors ==
    { "empty command", "requires at least", "accepts at most",
      "invalid float value", "temperature must be between 0 and 2",
      "no messages to delete", "failed to copy" }
    \cup { UnknownCommand(ParseCommand(line).Name) : line \in AllCmdLines }
    \cup { UnknownCommand(AvailableCommands[i]) : i \in DOMAIN AvailableCommands }

\* C20: Enter on a slash command (recognized, unrecognized or failing
\* validation, completed from a suggestion or not) leaves streaming false and
\* returns no streamResponse: nothing or the /reload closure; err is then as
\* before, nil, or an error of the command.
C20_CommandsNeverStream ==
    ~streaming =>
        \A line \in AllCmdLines :
          \A ok \in ClipsAt(line, BOOLEAN), sugg \in {""} \cup SuggestionsAt(line) :
            LET r == UpdateKey(M, "enter", line, sugg, ok) IN
            /\ ~r.m.streaming
            /\ r.cmds \in {EmptyBag, SetToBag({ReloadCmd})}
            /\ r.m.err \in {err, ""} \cup CommandErrors
            /\ r.m.streamChan = streamChan

\* after a committed turn, an unknown command was handled
C20_Witness ==
    /\ ~streaming
    /\ err = "unknown command: /save"
    /\ Len(messages) = 3
    /\ messages[3] = Message("assistant", <<"a">>)

\* The goroutine of stream s is in a send on its full channel
BlockedOnSend(s) ==
    /\ streams[s].pc \in {"sendContent", "sendError", "sendDone"}
    /\ ~CanSend(streams[s])

\* No closure receives from the channel of stream s and none will: m.streamChan
\* is another channel or nil, and no streamStartMsg of s is still to be handled
NoReaderEver(s) ==
    /\ streamChan # s
    /\ \A c \in BagToSet(cmds) :
          /\ ~(c.pc = "recv" /\ c.ch = s)
          /\ ~(c.pc = "send" /\ c.msg.type = "streamStartMsg" /\ c.msg.s = s)

\* C16: while the program runs, no goroutine of ChatStream is left in a send
\* that nothing will ever receive: whatever the controller does (reads to the
\* end, stops at an Error chunk, is cancelled with Ctrl+C, reads another
\* stream), the goroutine can go on to close the channel and the body.
C16_NoProducerBlockedForever ==
    ~quit => \A s \in DOMAIN streams : ~(BlockedOnSend(s) /\ NoReaderEver(s))

\* The roles of a history, in order
Roles(ms) == [i \in 1..Len(ms) |-> ms[i].Role]

\* The controller after Enter on a line, for each suggestion that can be
\* selected with that line and each outcome of the clipboard
AfterEnter(line) ==
    { UpdateKey(M, "enter", line, sugg, ok).m :
        sugg \in {""} \cup SuggestionsAt(line), ok \in ClipsAt(line, BOOLEAN) }

\* C21: /delete on [system, user, assistant] leaves [system]; on [system, user]
\* it leaves [system]; on [system] it sets the nothing-to-delete error and
\* leaves messages as they are.
C21_DeleteScenarios ==
    ~streaming =>
        \A m \in AfterEnter(<<"/", "delete">>) :
            /\ Roles(messages) = <<"system", "user", "assistant">> =>
                   m.messages = <<messages[1]>> /\ m.err = ""
            /\ Roles(messages) = <<"system", "user">> =>
                   m.messages = <<messages[1]>> /\ m.err = ""
            /\ Roles(messages) = <<"system">> =>
                   m.messages = messages /\ m.err = "no messages to delete"

\* a turn was committed by its stream, /delete removed it and a second /delete
\* failed
C21_Witness ==
    /\ ~streaming
    /\ Roles(messages) = <<"system">>
    /\ err = "no messages to delete"
    /\ Len(streams) = 1
    /\ Roles(streams[1].request) = <<"system", "user">>
    /\ statsComp.stats = 1

\* The history without the system message at index 0
WithoutSystem(ms) == IF ms # << >> /\ ms[1].Role = "system" THEN Tail(ms) ELSE ms

\* C22: on every reachable history of n messages /delete removes the last two
\* messages only when the last is an assistant message preceded by a user
\* message, removes the last message alone when it is a user message, fails and
\* changes nothing exactly when the history without the system message is
\* empty, and never removes the system message at index 0.
C22_DeleteLastTurn ==
    ~streaming =>
        \A m \in AfterEnter(<<"/", "delete">>) :
            LET n == Len(messages) IN
            /\ Len(m.messages) = n - 2 =>
                   /\ Roles(messages)[n] = "assistant"
                   /\ Roles(messages)[n - 1] = "user"
            /\ (n > 0 /\ Roles(messages)[n] = "user") =>
                   m.messages = SubSeq(messages, 1, n - 1)
            /\ (m.err = "no messages to delete" /\ m.messages = messages)
                   <=> WithoutSystem(messages) = << >>
            /\ (n > 0 /\ Roles(messages)[1] = "system") =>
                   m.messages # << >> /\ m.messages[1] = messages[1]

\* C23: messages holds at most one message with the role system, and that
\* one at index 0 (the first of the sequence): no command and no stream event
\* puts a system message elsewhere.
C23_OneSystemMessageFirst ==
    \A i \in DOMAIN messages : messages[i].Role = "system" => i = 1

\* /system lines with a text: words, runs of white space between them and
\* around the line, an upper-case name
SystemLines ==
    { <<"/", "system", " ", "Be">>,
      <<" ", "/", "system", " ", "Be", " ", " ", "brief">>,
      <<"/", "SYSTEM", " ", "Be", " ", "brief", " ">> }

\* The words of a command line after the name, with one space between them
ArgText(line) == JoinWords(Tail(Fields(Tail(TrimSpace(line)))))

\* C24: /system with a text sets systemPrompt to the text (its words, one
\* space apart) and makes the first message the system message with that
\* text: a system message at index 0 gets the new content, otherwise the
\* system message is put in front of the other messages, which stay as they
\* are and in their order.  /system without a text fails and leaves
\* systemPrompt and messages unchanged.
C24_SetSystemPrompt ==
    ~streaming =>
        /\ \A line \in SystemLines : \A m \in AfterEnter(line) :
              /\ m.systemPrompt = ArgText(line)
              /\ m.messages[1] = Message("system", ArgText(line))
              /\ IF messages # << >> /\ messages[1].Role = "system"
                 THEN m.messages = <<m.messages[1]>> \o Tail(messages)
                 ELSE m.messages = <<m.messages[1]>> \o messages
        /\ \A m \in AfterEnter(<<"/", "system">>) :
              /\ m.err = "requires at least"
              /\ m.systemPrompt = systemPrompt
              /\ m.messages = messages

\* no system prompt was configured and a turn was committed without one; then
\* /system put the system message in front of the turn
C24_Witness ==
    /\ ~streaming
    /\ config.SystemPrompt = << >>
    /\ systemPrompt = <<"Be", " ", "brief">>
    /\ Roles(messages) = <<"system", "user", "assistant">>
    /\ messages[1].Content = <<"Be", " ", "brief">>
    /\ Len(streams) = 1
    /\ Roles(streams[1].request) = <<"user">>
    /\ messages[3].Content = <<"a">>

\* the /system lines typed in the command specification
SystemLinesTyped == { line \in CmdLines : ParseCommand(line).Name = "system" }

\* C25: /new and /clear make messages the system message with the current
\* systemPrompt alone, or the empty history when systemPrompt is empty, and
\* clear the streaming buffer and the error; systemPrompt is the configured
\* prompt until /system sets it, and then the text /system set last.
C25_ResetHistory ==
    /\ [](~streaming =>
            \A line \in { <<"/", "new">>, <<"/", "NEW">>, <<"/", "clear">> } :
              \A m \in AfterEnter(line) :
                /\ m.messages = IF systemPrompt # << >>
                                THEN <<Message("system", systemPrompt)>>
                                ELSE << >>
                /\ m.systemPrompt = systemPrompt
                /\ m.streamContent = << >>
                /\ m.err = "")
    /\ [][ systemPrompt' # systemPrompt =>
             \E line \in SystemLinesTyped :
                /\ systemPrompt' = ArgText(line)
                /\ inputComponent'.value = << >> ]_vars
    /\ [](systemPrompt = config.SystemPrompt
            \/ \E line \in SystemLinesTyped : systemPrompt = ArgText(line))

\* /system set a prompt, a turn was committed, and /new reset the history to
\* the prompt /system set and emptied the buffer
C25_Witness ==
    /\ ~streaming
    /\ systemPrompt = <<"Be", " ", "brief">>
    /\ config.SystemPrompt = << >>
    /\ messages = <<Message("system", <<"Be", " ", "brief">>)>>
    /\ statsComp.stats = 1
    /\ streams[1].content = <<"a">>
    /\ streamContent = << >>
    /\ err = ""


(***************************************************************************)
(* The /temp command: the command specification with the lines of /temp.   *)
(***************************************************************************)

\* lines of /temp that the claim calls failing: arity, not a number, range
TempBadLines ==
    { <<"/", "temp">>, <<"/", "temp", " ", "0", " ", "2">>,
      <<"/", "temp", " ", "hot">>, <<"/", "temp", " ", "NaN">>,
      <<"/", "temp", " ", "3">>, <<"/", "temp", " ", "-1">> }

\* lines of /temp with a value in [0, 2], with the value in tenths
TempGoodLines ==
    { <<"/", "temp", " ", "0">>, <<"/", "Temp", " ", "0.5">>, <<"/", "temp", " ", "2">> }

TempValue(line) == ParseFloat(ParseCommand(line).Args[1]).val

TempLines == { <<"hi">> } \cup TempBadLines \cup TempGoodLines

KeyEnterTemp == KeyEnterOn(TempLines, {TRUE}, MaxCmdStreams, MaxCmdMsgs)

NextTemp ==
    \/ KeyEnterTemp
    \/ RunStreamResponseCmd
    \/ WaitBind
    \/ WaitRecv
    \/ OnStreamStartMsg
    \/ OnStreamChunkMsg
    \/ OnErrorMsg
    \/ Producer

SpecTemp == InitCmd /\ [][NextTemp]_vars

\* C26: in every idle state a /temp line that fails validation (arity, not a
\* number, out of [0, 2]) sets an error and leaves the client temperature, the
\* configuration and messages as they are, and a /temp line with a value in
\* [0, 2] sets the client temperature to that value; so the client temperature
\* is always a number in [0, 2].
C26_TempValidated ==
    /\ ~streaming =>
         /\ \A line \in TempBadLines : \A m \in AfterEnter(line) :
              /\ m.err # ""
              /\ m.temperature = temperature
              /\ m.config = config
              /\ m.messages = messages
         /\ \A line \in TempGoodLines : \A m \in AfterEnter(line) :
              m.temperature = TempValue(line)
    /\ temperature \in 0..20

(***************************************************************************)
(* ParseCommand and IsCommand as functions of the line.  A line is the     *)
(* sequence of its tokens: a white-space character, the slash that opens   *)
(* the line, or a word (a maximal run of other characters).  The lines     *)
(* drawn are the tokenizations of strings: no word touches another word,   *)
(* and a slash touches a following word only as the first token that is    *)
(* not white space.                                                        *)
(***************************************************************************)

MaxLine == 5

ParseTokens == { "/", " ", "Temp", "x" }

\* index of the first token that is not white space, 0 if there is none
FirstWord(s) ==
    IF \A i \in DOMAIN s : IsSpace(s[i]) THEN 0
    ELSE CHOOSE i \in DOMAIN s :
           ~IsSpace(s[i]) /\ \A j \in 1..(i - 1) : IsSpace(s[j])

Tokenized(s) ==
    \A i \in 1..(Len(s) - 1) :
       (~IsSpace(s[i]) /\ ~IsSpace(s[i + 1])) => (i = FirstWord(s) /\ s[i] = "/")

ParseInputs == { s \in SeqsUpTo(ParseTokens, MaxLine) : Tokenized(s) }

InitParse ==
    /\ \E cfg \in CmdConfigs, line \in ParseInputs :
         SetInit([NewChatModel(cfg) EXCEPT !.input.value = line])
    /\ cmds = EmptyBag
    /\ streams = << >>
    /\ now = 1
    /\ hist = NoHist

\* closures in flight at most: /reload returns one at every Enter
MaxParseCmds == 1

\* Enter on the line the input component holds
KeyEnterParse ==
    /\ BagCardinality(cmds) < MaxParseCmds
    /\ KeyEnterOn({inputComponent.value}, {TRUE}, MaxCmdStreams, MaxCmdMsgs)

NextParse == KeyEnterParse

SpecParse == InitParse /\ [][NextParse]_vars

\* C27: for the line held, with f the first token that is not white space:
\* ParseCommand fails with "not a command" when there is no such token or it is
\* not the slash, fails with "empty command" when only white space follows the
\* slash, and otherwise returns the first word after the slash lower-cased as
\* the name and the words after it, in order and unchanged, as the arguments;
\* IsCommand holds exactly when ParseCommand does not fail with "not a command".
C27_ParseCommand ==
    LET s == inputComponent.value
        f == FirstWord(s)
        words == SelectSeq(SubSeq(s, f + 1, Len(s)), LAMBDA t : ~IsSpace(t))
        c == ParseCommand(s) IN
    /\ (f = 0 \/ (f > 0 /\ s[f] # "/")) => c.err = "not a command"
    /\ (f > 0 /\ s[f] = "/" /\ words = << >>) => c.err = "empty command"
    /\ (f > 0 /\ s[f] = "/" /\ words # << >>) =>
          /\ c.err = ""
          /\ c.Name = ToLower(words[1])
          /\ c.Args = Tail(words)
    /\ IsCommand(s) <=> c.err # "not a command"

\* the line " /Temp x " was parsed as /temp with the argument x: the /temp
\* branch rejected the argument and left the line in the input component
C27_Witness ==
    /\ inputComponent.value = <<" ", "/", "Temp", " ", "x">>
    /\ err = "invalid float value"

-----------------------------------------------------------------------------
\* the documented command surface: AvailableCommands and the help text
DocumentedCommands == { AvailableCommands[i] : i \in DOMAIN AvailableCommands } \cup HelpCommands

\* C28: submitting a documented command name never results in the
\* unknown-command error: the error shown is never the unknown-command error of
\* a documented name, and in every idle state Enter on "/name" of a
\* documented name does not produce it.
C28_DocumentedCommandsRecognized ==
    /\ err \notin { UnknownCommand(name) : name \in DocumentedCommands }
    /\ ~streaming =>
         \A name \in DocumentedCommands : \A m \in AfterEnter(<<"/", name>>) :
            m.err # UnknownCommand(name)

-----------------------------------------------------------------------------
\* lines whose command name has no case in handleCommand, with the error shown
UnknownLines ==
    { [line |-> <<"/", "save">>,              err |-> "unknown command: /save"],
      [line |-> <<"/", "retry", " ", "x">>,   err |-> "unknown command: /retry"],
      [line |-> <<" ", "/", "hi", " ">>,      err |-> "unknown command: /hi"],
      [line |-> <<"/", "quit">>,              err |-> "unknown command: /quit"] }

\* C29: in every idle state Enter on a line whose command name is not
\* recognized sets the error that names the command, returns no closure, leaves
\* messages, systemPrompt, the client (temperature, model), the configuration,
\* the stats visibility and the streaming state as they are, does not quit and
\* empties the input; Enter on a text after it starts a request.
C29_UnknownCommandOnlySetsError ==
    ~streaming =>
      \A u \in UnknownLines : \A sugg \in {""} \cup SuggestionsAt(u.line) :
         LET r == UpdateKey(M, "enter", u.line, sugg, TRUE)
             next == UpdateKey(r.m, "enter", <<"hi">>, "", TRUE) IN
         /\ r.m.err = u.err
         /\ r.cmds = EmptyBag
         /\ r.m = [M EXCEPT !.err = u.err, !.input = [value |-> << >>]]
         /\ r.m.messages = messages /\ r.m.systemPrompt = systemPrompt
         /\ r.m.temperature = temperature /\ r.m.model = model /\ r.m.config = config
         /\ r.m.statsComp.visible = statsComp.visible
         /\ r.m.streaming = streaming
         /\ ~r.m.quit
         /\ next.m.streaming
         /\ next.m.messages = Append(messages, Message("user", <<"hi">>))
         /\ next.cmds = SetToBag({StreamResponseCmd})

\* /save was rejected after a turn that ended with a read error: the user
\* message of the turn is still the whole history
C29_Witness ==
    /\ ~streaming /\ ~quit
    /\ err = "unknown command: /save"
    /\ messages = <<Message("user", <<"hi">>)>>
    /\ inputComponent.value = << >>
    /\ Len(streams) = 1

(***************************************************************************)
(* Reloading the configuration: /reload and a turn.                        *)
(***************************************************************************)

MaxReloadStreams == 1
MaxReloads == 1

\* what config.Load() can return when it succeeds
ReloadConfigs ==
    { [SystemPrompt |-> <<"You are a helpful assistant">>, ShowStats |-> TRUE,
       Temperature |-> 7, Model |-> "gpt-4"],
      [SystemPrompt |-> <<"Be brief">>, ShowStats |-> FALSE,
       Temperature |-> 2, Model |-> "gpt-4o"] }

ReloadLines == { <<"hi">>, <<"/", "reload">> }

\* closures of /reload running or with their message not yet delivered
Reloads ==
    BagCardinality([c \in { d \in BagToSet(cmds) :
                              d = ReloadCmd
                              \/ (d.pc = "send" /\ d.msg.type = "configReloadedMsg")
                              \/ (d.pc = "send" /\ d.msg.type = "errorMsg"
                                  /\ d.msg.err = "failed to reload config") }
                      |-> cmds[c]])

\* Enter on a text, or on /reload while fewer than MaxReloads are in flight
KeyEnterReload ==
    KeyEnterOn(IF Reloads < MaxReloads THEN ReloadLines ELSE { <<"hi">> },
               {TRUE}, MaxReloadStreams, MaxMsgs)

\* the closure of /reload runs config.Load()
RunReload ==
    /\ ~quit
    /\ BagIn(ReloadCmd, cmds)
    /\ \/ cmds' = (cmds (-) SetToBag({ReloadCmd}))
                    (+) SetToBag({SendCmd(Msg("errorMsg", DoneChunk, 0,
                                              "failed to reload config"))})
       \/ \E cfg \in ReloadConfigs :
            cmds' = (cmds (-) SetToBag({ReloadCmd}))
                      (+) SetToBag({SendCmd(ConfigReloadedMsg(cfg))})
    /\ UNCHANGED <<ctlVars, streams, now>>

OnConfigReloadedMsg ==
    \E c \in BagToSet(cmds) :
        Deliver("configReloadedMsg", c, UpdateConfigReloadedMsg(M, c.msg))

NextReload ==
    \/ KeyEnterReload
    \/ RunReload
    \/ OnConfigReloadedMsg
    \/ RunStreamResponseCmd
    \/ WaitBind
    \/ WaitRecv
    \/ OnStreamStartMsg
    \/ OnStreamChunkMsg
    \/ OnErrorMsg
    \/ Producer

SpecReload == Init /\ [][NextReload]_vars

\* Update on a message of the stream
UpdateStreamMsg(m, msg) ==
    CASE msg.type = "streamStartMsg" -> UpdateStreamStartMsg(m, msg)
      [] msg.type = "streamChunkMsg" -> UpdateStreamChunkMsg(m, msg)
      [] msg.type = "streamCompleteMsg" -> UpdateStreamCompleteMsg(m, msg)

\* the controller m with the client and configuration of cfg, the error aside
Reconfigured(m, cfg, e) ==
    [m EXCEPT !.config = cfg, !.temperature = cfg.Temperature, !.model = cfg.Model,
              !.err = e]

\* C30: the step that processes a configReloadedMsg, in any state, sets config
\* and the client (temperature, model) to the loaded configuration and leaves
\* messages, systemPrompt, streamContent, streaming, streamChan, streamStats,
\* the streams and every other closure in flight as they are; and a message of
\* the stream is processed after a reload as it is without it: same closures
\* returned, same controller up to the configuration and the error shown.
C30_ReloadLeavesConversation ==
    /\ [][ \A c \in BagToSet(cmds) :
             (Delivered(c) /\ c.msg.type = "configReloadedMsg") =>
                /\ config' = c.msg.config
                /\ temperature' = c.msg.config.Temperature
                /\ model' = c.msg.config.Model
                /\ UNCHANGED <<messages, systemPrompt, streamContent, streaming,
                               streamChan, streamStats, statsComp, streams>>
                /\ cmds' = cmds (-) SetToBag({c}) ]_vars
    /\ [](\A cfg \in ReloadConfigs : \A c \in BagToSet(cmds) :
            (c.pc = "send"
             /\ c.msg.type \in {"streamStartMsg", "streamChunkMsg", "streamCompleteMsg"}) =>
               LET reloaded == UpdateConfigReloadedMsg(M, ConfigReloadedMsg(cfg)).m
                   after == UpdateStreamMsg(reloaded, c.msg)
                   before == UpdateStreamMsg(M, c.msg) IN
               /\ after.cmds = before.cmds
               /\ after.m = Reconfigured(before.m, cfg, after.m.err))

\* the configuration was reloaded and the turn is committed: the client is the
\* one of the loaded configuration, the system prompt is still the first one
C30_Witness ==
    /\ ~streaming
    /\ config.Model = "gpt-4o" /\ model = "gpt-4o" /\ temperature = 2
    /\ systemPrompt = <<"You are a helpful assistant">>
    /\ Len(messages) = 3
    /\ messages[3] = Message("assistant", <<"a">>)
    /\ inputComponent.value = <<"/", "reload">>
    /\ err = ""

-----------------------------------------------------------------------------
\* the errorMsg of a failed config.Load()
IsReloadFailure(c) ==
    c.pc = "send" /\ c.msg.type = "errorMsg" /\ c.msg.err = "failed to reload config"

\* C31: the step that processes the result of a failed reload while a stream is
\* in flight (streaming is true) leaves streaming true and leaves the buffer,
\* messages, the stream channel and the stats handle as they are.
C31_FailedReloadLeavesStream ==
    [][ \A c \in BagToSet(cmds) :
          (Delivered(c) /\ IsReloadFailure(c) /\ streaming) =>
             /\ streaming'
             /\ UNCHANGED <<messages, streamContent, streamChan, streamStats>> ]_vars

(***************************************************************************)
(* ChatStream by the status of the response.                               *)
(***************************************************************************)

\* resp.StatusCode of the responses drawn
Statuses == { StatusOK, 201, 204, 404, StatusError }

\* the streamResponse closure runs ChatStream: httpClient.Do fails, or the
\* response has a status; a status other than http.StatusOK is the API error
RunStreamResponseStatus ==
    /\ ~quit
    /\ BagIn(StreamResponseCmd, cmds)
    /\ \/ /\ cmds' = (cmds (-) SetToBag({StreamResponseCmd}))
                       (+) SetToBag({SendCmd(Msg("errorMsg", DoneChunk, 0,
                                                 "failed to send request"))})
          /\ streams' = Append(streams, FailedStream("failed to send request", now, messages))
       \/ \E status \in Statuses :
            IF status # StatusOK
            THEN /\ cmds' = (cmds (-) SetToBag({StreamResponseCmd}))
                              (+) SetToBag({SendCmd(Msg("errorMsg", DoneChunk, 0, "API error"))})
                 /\ streams' = Append(streams,
                                      [FailedStream("API error", now, messages) EXCEPT
                                          !.stats.HTTPStatus = status])
            ELSE \E body \in CmdBodies :
                   /\ streams' = Append(streams, NewStream(body, now, messages))
                   /\ cmds' = (cmds (-) SetToBag({StreamResponseCmd}))
                                (+) SetToBag({SendCmd(Msg("streamStartMsg", DoneChunk,
                                                          Len(streams) + 1, ""))})
    /\ UNCHANGED <<ctlVars, now>>

KeyEnterStatus == KeyEnterOn({ <<"hi">> }, {TRUE}, MaxStreams, MaxMsgs)

NextStatus ==
    \/ KeyEnterStatus
    \/ RunStreamResponseStatus
    \/ WaitBind
    \/ WaitRecv
    \/ OnStreamStartMsg
    \/ OnStreamChunkMsg
    \/ OnErrorMsg
    \/ Producer

SpecStatus == Init /\ [][NextStatus]_vars

\* the call of ChatStream recorded as streams[s] got a response
GotResponse(s) == streams[s].stats.HTTPStatus # 0

\* ChatStream returned a chunk channel for streams[s]: the goroutine was started
ReturnedChannel(s) == streams[s].pc # "failed"

\* C32: for every call of ChatStream that got a response: a status outside
\* 200..299 means no channel, no goroutine and a closed body, and a status in
\* 200..299 means a channel was returned; and the step that processes the
\* errorMsg of a failed ChatStream leaves streaming false with the error set
\* and schedules no chunk read.
C32_StatusDecidesStream ==
    /\ [](\A s \in DOMAIN streams :
            GotResponse(s) =>
               /\ streams[s].stats.HTTPStatus \notin 200..299 =>
                    /\ ~ReturnedChannel(s)
                    /\ streams[s].bodyClosed
                    /\ streams[s].chan = << >> /\ streams[s].sent = << >>
               /\ streams[s].stats.HTTPStatus \in 200..299 => ReturnedChannel(s))
    /\ [][ \A c \in BagToSet(cmds) :
             (Delivered(c) /\ c.msg.type = "errorMsg") =>
                /\ ~streaming'
                /\ err' = c.msg.err
                /\ cmds' = cmds (-) SetToBag({c}) ]_vars

(***************************************************************************)
(* Quitting: Ctrl+C, /exit, and every error the controller can receive.    *)
(***************************************************************************)

QuitLines ==
    { <<"hi">>, <<"/", "exit">>, <<"/", "save">>, <<"/", "temp", " ", "3">>,
      <<"/", "reload">> }

KeyEnterQuit ==
    KeyEnterOn(IF Reloads < MaxReloads THEN QuitLines ELSE QuitLines \ { <<"/", "reload">> },
               {TRUE}, MaxReloadStreams, MaxMsgs)

NextQuit ==
    \/ KeyCtrlC
    \/ KeyEnterQuit
    \/ RunReload
    \/ OnConfigReloadedMsg
    \/ RunStreamResponseCmd
    \/ WaitBind
    \/ WaitRecv
    \/ OnStreamStartMsg
    \/ OnStreamChunkMsg
    \/ OnErrorMsg
    \/ Producer

SpecQuit == Init /\ [][NextQuit]_vars

\* C33: a step that quits is taken while not streaming and is Ctrl+C (nothing
\* but quit changes) or Enter on a line whose command is exit (the line is in
\* the input component); in particular no step that processes a message quits.
\* Ctrl+C while streaming leaves the streaming state with the error
\* "streaming cancelled" and does not quit.
C33_QuitOnlyOnExplicitExit ==
    /\ [][ (~quit /\ quit') =>
             /\ ~streaming
             /\ cmds' = cmds /\ streams' = streams
             /\ \/ M' = [M EXCEPT !.quit = TRUE]
                \/ \E line \in QuitLines :
                     /\ ParseCommand(line).Name = "exit"
                     /\ M' = [M EXCEPT !.quit = TRUE, !.input.value = line] ]_vars
    /\ [](streaming =>
            UpdateKey(M, "ctrl+c", << >>, "", TRUE)
              = Ret([M EXCEPT !.streaming = FALSE, !.err = "streaming cancelled"], EmptyBag))
    /\ [](\A c \in BagToSet(cmds) :
            (~quit /\ c.pc = "send" /\ c.msg.type \in {"errorMsg", "streamChunkMsg"}) =>
               ~(IF c.msg.type = "errorMsg" THEN UpdateErrorMsg(M, c.msg)
                 ELSE UpdateStreamChunkMsg(M, c.msg)).m.quit)

\* Ctrl+C cancelled the turn and a second Ctrl+C quit
C33_Witness ==
    /\ quit
    /\ err = "streaming cancelled"
    /\ ~streaming
    /\ Len(streams) = 1

-----------------------------------------------------------------------------
\* the number of assistant messages that terminal events of streams[s] appended
CommitsOf(s) == Len(SelectSeq(hist.commits, LAMBDA ch : ch = s))

\* C34: no stream has appended more than one assistant message, whether by its
\* Done chunk or by the streamCompleteMsg of its closed channel.
C34_OneCommitPerStream ==
    \A s \in DOMAIN streams : CommitsOf(s) <= 1

-----------------------------------------------------------------------------
\* waitForChunk closures not yet returned: chunk reads outstanding
OutstandingReads ==
    BagCardinality([c \in { d \in BagToSet(cmds) : d.pc \in {"wait", "recv"} } |-> cmds[c]])

\* streams[s] was requested with the history of the turn in progress
OfTheTurn(s) == streams[s].request = hist.turn

\* C35: at most one chunk read is outstanding at any time; a fragment is folded
\* into the buffer only from a stream of the turn in progress; and a terminal
\* chunk ends the streaming state or appends a message only when it comes from
\* a stream of the turn in progress.
C35_StreamsIsolatedPerTurn ==
    /\ [](OutstandingReads <= 1)
    /\ [][ \A c \in BagToSet(cmds) :
             (Delivered(c) /\ c.msg.type = "streamChunkMsg") =>
                /\ streamContent' # streamContent => OfTheTurn(c.msg.s)
                /\ (~IsContent(c.msg.chunk)
                    /\ (streaming' # streaming \/ messages' # messages)) =>
                      OfTheTurn(c.msg.s) ]_vars

(***************************************************************************)
(* Liveness of the streaming state.  The user is under no obligation; the  *)
(* program does not stop while the request closure, the goroutine of       *)
(* ChatStream, a closure of waitForChunk or the event loop can take a step.*)
(***************************************************************************)

\* a step of the program that no user takes
SystemStep ==
    \/ RunStreamResponse
    \/ Producer
    \/ WaitBind
    \/ WaitRecv
    \/ OnStreamStartMsg
    \/ OnStreamChunkMsg
    \/ OnStreamCompleteMsg
    \/ OnErrorMsg

\* ENABLED <<SystemStep>>_vars, from the guards of the actions of SystemStep:
\* each of them changes cmds or streams
SystemStepEnabled ==
    /\ ~quit
    /\ \/ BagIn(StreamResponseCmd, cmds)
       \/ BagIn(Cmd("wait", 0, NoMsg), cmds)
       \/ \E s \in DOMAIN streams :
            \/ streams[s].pc \in {"read", "finalize", "close"}
            \/ /\ streams[s].pc \in {"sendContent", "sendError", "sendDone"}
               /\ CanSend(streams[s])
       \/ \E c \in BagToSet(cmds) :
            \/ /\ c.pc = "send"
               /\ c.msg.type \in {"streamStartMsg", "streamChunkMsg",
                                  "streamCompleteMsg", "errorMsg"}
            \/ /\ c.pc = "recv"
               /\ c.ch # 0
               /\ (streams[c.ch].chan # << >> \/ streams[c.ch].closed)

\* the guards are the enabling condition of SystemStep
SystemStepEnabledIsEnabled == SystemStepEnabled <=> ENABLED <<SystemStep>>_vars

\* Weak fairness of SystemStep, WF_vars(SystemStep), with its enabling
\* condition written as SystemStepEnabled: while the program can take a step,
\* it takes one.
Fairness == []<>~SystemStepEnabled \/ []<><<SystemStep>>_vars

SpecLive == Init /\ [][Next]_vars /\ Fairness

\* Enter on a line of text is taken as a new turn
InputAccepted ==
    /\ ~quit
    /\ \A r \in AfterEnter(<<"hi">>) :
         /\ r.streaming
         /\ r.messages = Append(messages, Message("user", <<"hi">>))

\* C36: whenever the controller is streaming, it is later not streaming, and
\* user input is then accepted.
C36_StreamingEnds == streaming ~> (~streaming /\ InputAccepted)

\* a turn that was not cancelled has ended: its reply is committed and the
\* controller is idle
C36_Witness ==
    /\ ~streaming /\ ~quit
    /\ ~hist.everCancelled
    /\ Len(streams) = 1
    /\ Len(messages) = 3
    /\ messages[3].Role = "assistant"
    /\ cmds = EmptyBag

-----------------------------------------------------------------------------
(* Where assistant-role messages come from *)

\* the assistant-role messages of a history
AssistantMessages(msgs) == { i \in DOMAIN msgs : msgs[i].Role = "assistant" }

\* C37: the number of assistant-role messages grows only in a step that commits
\* the content of a stream, and an assistant-role message is never the first
\* message after the start or after a system message: it follows the user
\* message it replies to, which is the one /delete removes with it.
C37_AssistantOnlyFromStreams ==
    /\ [][ Cardinality(AssistantMessages(messages')) >
             Cardinality(AssistantMessages(messages)) =>
               Len(hist'.commits) > Len(hist.commits) ]_vars
    /\ [](\A i \in AssistantMessages(messages) :
             i > 1 /\ messages[i - 1].Role = "user")

-----------------------------------------------------------------------------
(* The input component: internal/ui/components/input.go.  The component is
   the record [value, history, historyIndex, currentInput]: value is
   textarea.Value(), a text is a sequence of tokens, "" is << >>.  The
   specifications above keep its value alone. *)

\* entries of the history at most, SpecInput and SpecSugg
MaxHistory == 3
\* tokens of the text in the textarea at most, SpecInput and SpecSugg
MaxValue == 2

NewInputComponent ==
    [value |-> << >>, history |-> << >>, historyIndex |-> -1, currentInput |-> << >>]

\* textarea.Update on a key that is not up or down: a character is typed at
\* the end of the text or the last one is deleted; any other key leaves the text
TextareaUpdate(value, key) ==
    CASE key = "backspace" -> IF value = << >> THEN value
                              ELSE SubSeq(value, 1, Len(value) - 1)
      [] key \in {"tab", "enter", "ctrl+c", "ctrl+s", "ctrl+d"} -> value
      [] OTHER -> Append(value, key)

\* i.history[len(i.history)-1-i.historyIndex]
HistoryAt(i, idx) == i.history[Len(i.history) - idx]

\* InputComponent.Update on a key
InputUpdate(i, key) ==
    CASE key = "up" ->
            IF Len(i.history) > 0
            THEN LET i1 == IF i.historyIndex = -1
                           THEN [i EXCEPT !.currentInput = i.value] ELSE i
                     idx == IF i.historyIndex + 1 >= Len(i.history)
                            THEN Len(i.history) - 1 ELSE i.historyIndex + 1
                 IN  [i1 EXCEPT !.historyIndex = idx, !.value = HistoryAt(i, idx)]
            ELSE i
      [] key = "down" ->
            IF i.historyIndex >= 0
            THEN LET idx == i.historyIndex - 1 IN
                 [i EXCEPT !.historyIndex = idx,
                           !.value = IF idx = -1 THEN i.currentInput
                                     ELSE HistoryAt(i, idx)]
            ELSE i
      [] OTHER -> [i EXCEPT !.value = TextareaUpdate(@, key)]

\* InputComponent.Reset
InputReset(i) == [i EXCEPT !.value = << >>, !.historyIndex = -1, !.currentInput = << >>]

\* InputComponent.SetValue
SetValue(i, value) == [i EXCEPT !.value = value]

\* AddToHistory, but an input equal to the last entry is added again
AddToHistoryRepeats(i, input) ==
    IF input # << >>
    THEN [i EXCEPT !.history = Append(@, input),
                   !.historyIndex = -1,
                   !.currentInput = << >>]
    ELSE i

\* InputComponent.AddToHistory
AddToHistory(i, input) ==
    IF input # << >>
       /\ (Len(i.history) = 0 \/ i.history[Len(i.history)] # input)
    THEN [i EXCEPT !.history = Append(@, input),
                   !.historyIndex = -1,
                   !.currentInput = << >>]
    ELSE i

\* the characters typed
EditTokens == {"/", "s"}
\* the keys the component is sent
InputKeys == {"up", "down", "backspace"} \cup EditTokens
\* the texts AddToHistory is called with
HistoryInputs == { << >>, <<"hi">>, <<"/", "s">>, <<"s">> }

InitInput ==
    /\ \E cfg \in Configs : SetInit([NewChatModel(cfg) EXCEPT !.input = NewInputComponent])
    /\ cmds = EmptyBag
    /\ streams = << >>
    /\ now = 1
    /\ hist = NoHist

\* the variables of the controller but the input component
notInputVars ==
    <<messages, streaming, streamContent, streamChan, streamStats, err, systemPrompt,
      statsComp, temperature, model, config, suggestions, selectedSuggestion, quit,
      cmds, streams, now, hist>>

InputKey ==
    /\ \E key \in InputKeys :
         /\ key \in EditTokens => Len(inputComponent.value) < MaxValue
         /\ inputComponent' = InputUpdate(inputComponent, key)
    /\ UNCHANGED notInputVars

InputAddToHistory ==
    /\ Len(inputComponent.history) < MaxHistory
    /\ \E input \in HistoryInputs \cup {inputComponent.value} :
         inputComponent' = AddToHistory(inputComponent, input)
    /\ UNCHANGED notInputVars

InputResetCall ==
    /\ inputComponent' = InputReset(inputComponent)
    /\ UNCHANGED notInputVars

NextInput == InputKey \/ InputAddToHistory \/ InputResetCall

SpecInput == InitInput /\ [][NextInput]_vars

\* C39: historyIndex is within -1 .. len(history)-1; Up on the oldest entry
\* stays on it; Down from index 0 returns to -1 and restores the text saved when
\* navigation started, which no step changes while an entry is shown; no entry
\* of the history is empty and no two consecutive entries are equal.
C39_HistoryNavigation ==
    /\ [](LET i == inputComponent IN
            /\ i.historyIndex \in -1 .. Len(i.history) - 1
            /\ \A k \in DOMAIN i.history :
                 /\ i.history[k] # << >>
                 /\ k > 1 => i.history[k] # i.history[k - 1]
            /\ LET up == InputUpdate(i, "up")
                   down == InputUpdate(i, "down") IN
               /\ i.historyIndex = Len(i.history) - 1 =>
                    /\ up.historyIndex = i.historyIndex
                    /\ Len(i.history) > 0 => up.value = i.history[1]
               /\ i.historyIndex = 0 =>
                    /\ down.historyIndex = -1
                    /\ down.value = i.currentInput)
    /\ [][ LET i == inputComponent IN
            /\ (i.historyIndex = -1 /\ inputComponent'.historyIndex >= 0) =>
                  inputComponent'.currentInput = i.value
            /\ (i.historyIndex >= 0 /\ inputComponent'.historyIndex >= 0) =>
                  inputComponent'.currentInput = i.currentInput ]_vars

\* the third entry back is shown, the text typed before is saved
C39_Witness ==
    /\ Len(inputComponent.history) = 3
    /\ inputComponent.historyIndex = 2
    /\ inputComponent.value = inputComponent.history[1]
    /\ inputComponent.currentInput = <<"/", "s">>

-----------------------------------------------------------------------------
(* The controller with the text being typed: keys reach the input component,
   the suggestions follow the text, Tab and Enter use the selected one *)

\* m.suggestions[m.selectedSuggestion].Name; an index out of range panics
SelectedName(m) == m.suggestions[m.selectedSuggestion + 1]

\* RefreshSuggestions, but the selection is left where it is when the list is
\* not empty
RefreshSuggestionsUnclamped(m) ==
    LET s == GetSuggestions(m.input.value) IN
    [m EXCEPT !.suggestions = s,
              !.selectedSuggestion = IF Len(s) = 0 THEN 0 ELSE @]

\* m.suggestions = commands.GetSuggestions(m.input.Value()) and the selection
\* brought back into the list (lines 1092-1101)
RefreshSuggestions(m) ==
    LET s == GetSuggestions(m.input.value) IN
    [m EXCEPT !.suggestions = s,
              !.selectedSuggestion = IF Len(s) = 0 THEN 0
                                     ELSE IF @ >= Len(s) THEN Len(s) - 1
                                     ELSE @]

\* a message the switch does not return on: m.input.Update(msg), then the
\* suggestions are refreshed (lines 1086-1103)
UpdateInput(m, key) ==
    Ret(RefreshSuggestions([m EXCEPT !.input = InputUpdate(@, key)]), EmptyBag)

\* the input of case tea.KeyEnter after auto-completion (lines 997-1007)
EnterInput(m) ==
    LET in0 == TrimSpace(m.input.value) IN
    IF IsCommand(in0) /\ Len(m.suggestions) > 0
    THEN <<"/", SelectedName(m)>> ELSE in0

\* case tea.KeyEnter with the text and the suggestions the controller holds;
\* where the code reaches m.input.AddToHistory(input) and m.input.Reset()
\* (lines 1025-1027 and 1349-1351) the component's history follows
UpdateEnter(m, clipOk) ==
    LET in0 == TrimSpace(m.input.value)
        sugg == IF IsCommand(in0) /\ Len(m.suggestions) > 0
                THEN SelectedName(m) ELSE ""
        in1 == IF sugg # "" THEN <<"/", sugg>> ELSE in0
        r == UpdateKey(m, "enter", m.input.value, sugg, clipOk)
    IN  IF ~m.streaming /\ in0 # << >> /\ r.m.input.value = << >>
        THEN Ret([r.m EXCEPT !.input = InputReset(AddToHistory(m.input, in1))], r.cmds)
        ELSE r

\* case tea.KeyMsg and what follows the switch (lines 943-1103)
UpdateKeyMsg(m, key, clipOk) ==
    IF m.streaming THEN UpdateKey(m, key, m.input.value, "", clipOk)
    ELSE CASE key \in {"ctrl+c", "ctrl+s"} -> UpdateKey(m, key, m.input.value, "", clipOk)
           [] key = "ctrl+d" -> Ret(m, EmptyBag)
           [] key = "tab" ->
                IF Len(m.suggestions) > 0
                THEN Ret([m EXCEPT !.input = SetValue(@, <<"/", SelectedName(m), " ">>),
                                   !.suggestions = << >>,
                                   !.selectedSuggestion = 0], EmptyBag)
                ELSE Ret(m, EmptyBag)
           [] key = "up" ->
                IF Len(m.suggestions) > 1
                THEN Ret([m EXCEPT !.selectedSuggestion =
                              IF @ - 1 < 0 THEN Len(m.suggestions) - 1 ELSE @ - 1],
                         EmptyBag)
                ELSE UpdateInput(m, key)
           [] key = "down" ->
                IF Len(m.suggestions) > 1
                THEN Ret([m EXCEPT !.selectedSuggestion =
                              IF @ + 1 >= Len(m.suggestions) THEN 0 ELSE @ + 1],
                         EmptyBag)
                ELSE UpdateInput(m, key)
           [] key = "enter" -> UpdateEnter(m, clipOk)
           [] OTHER -> UpdateInput(m, key)

\* ChatStream calls, messages and closures in flight at most, SpecSugg
MaxSuggStreams == 1
MaxSuggMsgs == 3
MaxSuggCmds == 1
\* entries of the history at most, SpecSugg
MaxSuggHistory == 1

\* the commands Enter is pressed on, SpecSugg
SuggEnterCommands == {"help", "temp", "exit"}

\* the keys pressed
SuggKeys == {"up", "down", "tab", "enter", "backspace"} \cup EditTokens

KeySugg ==
    /\ ~quit
    /\ \E key \in SuggKeys :
         /\ key \in EditTokens => Len(inputComponent.value) < MaxValue
         /\ (key = "enter" /\ IsCommand(EnterInput(M))) =>
                ParseCommand(EnterInput(M)).Name \in SuggEnterCommands
         /\ LET r == UpdateKeyMsg(M, key, TRUE) IN
              /\ Len(r.m.messages) <= MaxSuggMsgs
              /\ Len(r.m.input.history) <= MaxSuggHistory
              /\ BagCardinality(cmds (+) r.cmds) <= MaxSuggCmds
              /\ BagIn(StreamResponseCmd, r.cmds) => Requests < MaxSuggStreams
              /\ SetM(r.m)
              /\ cmds' = cmds (+) r.cmds
              /\ hist' = IF BagIn(StreamResponseCmd, r.cmds)
                         THEN [hist EXCEPT !.turn = r.m.messages,
                                           !.cancelled = FALSE, !.errored = FALSE]
                         ELSE hist
    /\ UNCHANGED <<streams, now>>

\* case tea.WindowSizeMsg: the size is kept, then the input component and the
\* suggestions are updated as for every message the switch does not return on
OnWindowSizeMsg ==
    /\ ~quit
    /\ SetM(RefreshSuggestions(M))
    /\ UNCHANGED <<cmds, streams, now, hist>>

NextSugg ==
    \/ KeySugg
    \/ OnWindowSizeMsg
    \/ RunStreamResponseCmd
    \/ WaitBind
    \/ WaitRecv
    \/ OnStreamStartMsg
    \/ OnStreamChunkMsg
    \/ OnErrorMsg
    \/ Producer

SpecSugg == InitInput /\ [][NextSugg]_vars

\* C38: whenever there are suggestions, the selected one is one of them.
C38_SelectedSuggestionInRange ==
    Len(suggestions) > 0 =>
        /\ 0 <= selectedSuggestion
        /\ selectedSuggestion < Len(suggestions)

\* after a reply was committed, the last of the three commands that start
\* with s is selected
C38_Witness ==
    /\ suggestions = <<"system", "save", "stats">>
    /\ selectedSuggestion = 2
    /\ Len(messages) = 3
    /\ messages[3].Role = "assistant"
    /\ Len(inputComponent.history) = 1
=============================================================================
